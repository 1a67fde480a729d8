---------------------------- MODULE ForwardProofs ----------------------------
(***************************************************************************)
(* Proofs about Forward, for any finite set of exchanges, any number of    *)
(* API permits and any deadlines and limits.                               *)
(*                                                                         *)
(* Each step is shown to be a move of one exchange from a record that      *)
(* agrees with Agrees to another one, with the permit it takes or returns. *)
(***************************************************************************)
EXTENDS Forward, TLAPS, FiniteSetTheorems

\* The frame that has arrived and was not read yet.
Unread(x) == IF x.arrived \in {"frame", "last"} THEN 1 ELSE 0

\* Where an exchange is, what was reported of it and what became of the frames.
Agrees(x) ==
  /\ x.stage \in {"none", "permit", "sending", "fetch"} => x.sent = 0 /\ x.read = 0
  /\ x.stage \in {"none", "permit", "sending", "body", "fetch"} => x.observed = 0
  /\ x.stage # "over" => x.end = "open"
  /\ x.stage = "body" =>
       /\ x.sent = x.read + Unread(x)
       /\ x.kept => x.read <= Limit
       /\ x.arrived = "nothing" /\ x.idle # Off => x.idle <= x.silent
  /\ x.stage = "overflow" =>
       /\ x.observed = 1
       /\ x.sent = Unread(x) + IF x.read < 2 THEN 2 ELSE x.read
  /\ x.stage = "over" =>
       /\ x.observed <= 1
       /\ x.end # "dropped" => x.observed = 1
       /\ x.learned => x.end = "whole" /\ x.read <= Limit
       /\ x.end = "whole" => x.read = x.sent

Fair(x) == x \in Exchange /\ Agrees(x)

Holders == {e \in Exchanges : Holds(ex[e])}

FInv ==
  /\ \A e \in Exchanges : Fair(ex[e])
  /\ ex = [e \in Exchanges |-> ex[e]]
  /\ free \in Nat
  /\ free + Cardinality(Holders) = Api

\* What the reasons of the two timeouts are worth when they are given.
Justified(x, y) ==
  /\ y.end = "504" /\ x.end # "504" => x.age >= Idle /\ x.answer = "none"
  /\ y.end = "idle" /\ x.end # "idle" => x.silent >= Idle /\ x.arrived = "nothing"

\* A move of one exchange, with its permit.
Moves(e, y) ==
  /\ Fair(y) /\ Justified(ex[e], y)
  /\ Becomes(e, y)
  /\ \/ Holds(y) = Holds(ex[e]) /\ free' = free
     \/ Holds(y) /\ ~Holds(ex[e]) /\ free > 0 /\ free' = free - 1
     \/ ~Holds(y) /\ Holds(ex[e]) /\ free' = free + 1

-----------------------------------------------------------------------------
(* The permits.                                                            *)

LEMMA ConstantTypes ==
  /\ IsFiniteSet(Exchanges)
  /\ Api \in Nat /\ Idle \in Nat /\ Idle > 0 /\ Total \in Nat /\ Total > 0
  /\ Limit \in Nat /\ MaxFrames \in Nat /\ Off = Idle + 1
BY ForwardAssumption DEF Off

LEMMA HoldersFinite == IsFiniteSet(Holders) /\ Cardinality(Holders) \in Nat
BY ConstantTypes, FS_Subset, FS_CardinalityType DEF Holders

LEMMA MoveKeeps ==
  ASSUME FInv, NEW e \in Exchanges, NEW y, Moves(e, y)
  PROVE  FInv'
<1> USE DEF FInv
<1>1. /\ ex'[e] = y
      /\ \A d \in Exchanges : d # e => ex'[d] = ex[d]
      /\ ex' = [d \in Exchanges |-> ex'[d]]
  BY DEF Moves, Becomes
<1>2. \A d \in Exchanges : Fair(ex'[d])
  BY <1>1 DEF Moves
<1>3. CASE Holds(y) = Holds(ex[e]) /\ free' = free
  <2>1. Holders' = Holders
    BY <1>1, <1>3 DEF Holders
  <2>2. QED
    BY <1>1, <1>2, <1>3, <2>1
<1>4. CASE Holds(y) /\ ~Holds(ex[e]) /\ free > 0 /\ free' = free - 1
  <2>1. Holders' = Holders \cup {e} /\ e \notin Holders
    BY <1>1, <1>4 DEF Holders
  <2>2. Cardinality(Holders') = Cardinality(Holders) + 1
    BY <2>1, HoldersFinite, FS_AddElement
  <2>3. free' \in Nat /\ free' + Cardinality(Holders') = Api
    BY <1>4, <2>2, HoldersFinite
  <2>4. QED
    BY <1>1, <1>2, <2>3
<1>5. CASE ~Holds(y) /\ Holds(ex[e]) /\ free' = free + 1
  <2>1. Holders' = Holders \ {e} /\ e \in Holders
    BY <1>1, <1>5 DEF Holders
  <2>2. Cardinality(Holders') = Cardinality(Holders) - 1
    BY <2>1, HoldersFinite, FS_RemoveElement
  <2>3. free' \in Nat /\ free' + Cardinality(Holders') = Api
    BY <1>5, <2>2, HoldersFinite
  <2>4. QED
    BY <1>1, <1>2, <2>3
<1>6. QED
  BY <1>3, <1>4, <1>5 DEF Moves

-----------------------------------------------------------------------------
(* The records.                                                            *)

LEMMA NewIsFair == Fair(New) /\ ~Holds(New)
BY ConstantTypes DEF Fair, Agrees, New, Exchange, Stages, Ends, Holds

\* How an exchange ends, field by field.
LEMMA OverIs ==
  ASSUME NEW x, NEW end, NEW reports, NEW learns
  PROVE  Over(x, end, reports, learns) =
           [stage |-> "over", end |-> end, upload |-> FALSE, age |-> 0,
            wait |-> 0, answer |-> "none", arrived |-> "nothing", sent |-> x.sent,
            read |-> x.read, kept |-> FALSE, idle |-> Off, total |-> 0, silent |-> 0,
            observed |-> x.observed + reports, learned |-> learns]
<1>1. Over(x, end, reports, learns) =
        [New EXCEPT !["stage"] = "over", !["end"] = end, !["sent"] = x.sent,
                    !["read"] = x.read, !["observed"] = x.observed + reports,
                    !["learned"] = learns]
  BY Zenon DEF Over
<1>2. QED
  BY <1>1 DEF New

\* An exchange is reported once, at the latest when it ends, unless it is dropped.
Reports(x, end, reports) ==
  \/ reports = 1 /\ x.observed = 0
  \/ reports = 0 /\ x.observed = 1
  \/ reports = 0 /\ x.observed = 0 /\ end = "dropped"

\* Every end returns the permit; what is left to show of each is what it reports.
LEMMA EndMoves ==
  ASSUME FInv, NEW e \in Exchanges, NEW x, NEW end \in Ends, NEW reports \in {0, 1},
         NEW learns \in BOOLEAN,
         x \in Exchange, Reports(x, end, reports),
         learns => end = "whole" /\ x.read <= Limit,
         end = "whole" => x.read = x.sent,
         end = "504" => ex[e].age >= Idle /\ ex[e].answer = "none",
         end = "idle" => ex[e].silent >= Idle /\ ex[e].arrived = "nothing",
         Becomes(e, Over(x, end, reports, learns)), GiveBack(e)
  PROVE  \E y \in Exchange : Moves(e, y)
<1> DEFINE y == Over(x, end, reports, learns)
<1>1. /\ y.stage = "over" /\ y.end = end /\ y.sent = x.sent /\ y.read = x.read
      /\ y.observed = x.observed + reports /\ y.learned = learns
  BY OverIs
<1>2. y \in Exchange
  <2>1. /\ x.sent \in 0..MaxFrames /\ x.read \in 0..MaxFrames
        /\ x.observed + reports \in 0..2 /\ 0 \in 0..Idle /\ 0 \in 0..Total /\ Off \in 0..Off
    BY ConstantTypes DEF Exchange, Reports
  <2>2. QED
    BY <2>1, OverIs DEF Exchange, Stages
<1>3. Fair(y) /\ ~Holds(y)
  BY <1>1, <1>2 DEF Fair, Agrees, Holds, Reports
<1>4. Justified(ex[e], y)
  BY <1>1 DEF Justified
<1>5. \/ Holds(y) = Holds(ex[e]) /\ free' = free
      \/ ~Holds(y) /\ Holds(ex[e]) /\ free' = free + 1
  BY <1>3 DEF GiveBack, Holds
<1>6. Moves(e, y)
  BY <1>3, <1>4, <1>5 DEF Moves
<1>7. QED
  BY <1>2, <1>6

\* An end that teaches the engine nothing, and the empty answer that does.
LEMMA EndIsMove ==
  ASSUME FInv, NEW e \in Exchanges, NEW end \in Ends, NEW reports \in {0, 1},
         Reports(ex[e], end, reports),
         end = "whole" => ex[e].read = ex[e].sent,
         end = "504" => ex[e].age >= Idle /\ ex[e].answer = "none",
         end = "idle" => ex[e].silent >= Idle /\ ex[e].arrived = "nothing",
         End(e, end, reports, FALSE)
  PROVE  \E y \in Exchange : Moves(e, y)
<1>1. ex[e] \in Exchange
  BY DEF FInv, Fair
<1>2. Becomes(e, Over(ex[e], end, reports, FALSE)) /\ GiveBack(e)
  BY DEF End
<1>3. QED
  BY <1>1, <1>2, EndMoves

LEMMA LearnedEndIsMove ==
  ASSUME FInv, NEW e \in Exchanges,
         ex[e].observed = 0, ex[e].read = 0, ex[e].sent = 0,
         End(e, "whole", 1, TRUE)
  PROVE  \E y \in Exchange : Moves(e, y)
<1>1. ex[e] \in Exchange
  BY DEF FInv, Fair
<1>2. Becomes(e, Over(ex[e], "whole", 1, TRUE)) /\ GiveBack(e)
  BY DEF End
<1>3. "whole" \in Ends /\ Reports(ex[e], "whole", 1) /\ ex[e].read <= Limit
  BY ConstantTypes DEF Ends, Reports
<1>4. QED
  BY <1>1, <1>2, <1>3, EndMoves

-----------------------------------------------------------------------------
(* The steps.                                                              *)

LEMMA AskMoves ==
  ASSUME FInv, NEW e \in Exchanges, Ask(e)
  PROVE  \E y \in Exchange : Moves(e, y)
<1> DEFINE Asked(y) == /\ y \in Exchange /\ y.stage \in {"permit", "fetch"} /\ y.end = "open"
                       /\ y.observed = 0 /\ y.sent = 0 /\ y.read = 0
<1>1. /\ In(e, "none") /\ UNCHANGED free
      /\ \/ \E body \in BOOLEAN :
              Becomes(e, [New EXCEPT !["stage"] = "permit", !["upload"] = body])
         \/ Becomes(e, [New EXCEPT !["stage"] = "fetch"])
  BY Zenon DEF Ask
<1>2. ASSUME NEW body \in BOOLEAN
      PROVE  Asked([New EXCEPT !["stage"] = "permit", !["upload"] = body])
  BY NewIsFair DEF New, Fair, Exchange, Stages
<1>3. Asked([New EXCEPT !["stage"] = "fetch"])
  BY NewIsFair DEF New, Fair, Exchange, Stages
<1>4. PICK y : Asked(y) /\ Becomes(e, y)
  BY <1>1, <1>2, <1>3
<1>5. Fair(y) /\ ~Holds(y) /\ Justified(ex[e], y)
  BY <1>4 DEF Fair, Agrees, Holds, Justified
<1>6. Holds(y) = Holds(ex[e])
  BY <1>1, <1>4 DEF In, Holds
<1>7. Moves(e, y)
  BY <1>1, <1>4, <1>5, <1>6 DEF Moves
<1>8. QED
  BY <1>4, <1>7

LEMMA TakePermitMoves ==
  ASSUME FInv, NEW e \in Exchanges, TakePermit(e)
  PROVE  \E y \in Exchange : Moves(e, y)
<1> DEFINE y == [ex[e] EXCEPT !["stage"] = "sending"]
<1>1. In(e, "permit") /\ free > 0 /\ Becomes(e, y) /\ free' = free - 1
  BY Zenon DEF TakePermit
<1>2. Fair(y) /\ Holds(y) /\ ~Holds(ex[e]) /\ Justified(ex[e], y)
  BY <1>1 DEF FInv, Fair, Agrees, Exchange, Stages, In, Holds, Justified
<1>3. Moves(e, y)
  BY <1>1, <1>2 DEF Moves
<1>4. QED
  BY <1>2, <1>3 DEF Fair

LEMMA UploadMoves ==
  ASSUME FInv, NEW e \in Exchanges, Upload(e)
  PROVE  \E y \in Exchange : Moves(e, y)
<1>1. PICK more \in BOOLEAN :
        Becomes(e, [ex[e] EXCEPT !["upload"] = more,
                                 !["age"] = IF In(e, "sending") THEN 0 ELSE @])
  BY Zenon DEF Upload
<1> DEFINE y == [ex[e] EXCEPT !["upload"] = more,
                              !["age"] = IF In(e, "sending") THEN 0 ELSE @]
<1>2. y \in Exchange
  BY ConstantTypes DEF FInv, Fair, Exchange
<1>3. Fair(y) /\ Holds(y) = Holds(ex[e]) /\ Justified(ex[e], y)
  BY <1>2 DEF FInv, Fair, Agrees, Unread, Exchange, Holds, Justified
<1>4. Moves(e, y)
  BY <1>1, <1>3 DEF Moves, Upload
<1>5. QED
  BY <1>2, <1>4

LEMMA AnswerMoves ==
  ASSUME FInv, NEW e \in Exchanges, Answer(e)
  PROVE  \E y \in Exchange : Moves(e, y)
<1>1. PICK a \in {"ok", "empty", "failed"} : Becomes(e, [ex[e] EXCEPT !["answer"] = a])
  BY Zenon DEF Answer
<1> DEFINE y == [ex[e] EXCEPT !["answer"] = a]
<1>2. UNCHANGED free
  BY Zenon DEF Answer
<1>3. Fair(y) /\ Holds(y) = Holds(ex[e]) /\ Justified(ex[e], y)
  BY DEF FInv, Fair, Agrees, Unread, Exchange, Holds, Justified
<1>4. Moves(e, y)
  BY <1>1, <1>2, <1>3 DEF Moves
<1>5. QED
  BY <1>3, <1>4 DEF Fair

LEMMA AwaitHeadersMoves ==
  ASSUME FInv, NEW e \in Exchanges, AwaitHeaders(e)
  PROVE  \E y \in Exchange : Moves(e, y)
<1> DEFINE x == ex[e]
<1>1. x \in Exchange /\ x.observed = 0 /\ x.end = "open" /\ x.stage = "sending"
  BY DEF FInv, Fair, Agrees, AwaitHeaders, In
<1>2. CASE x.answer = "ok"
  <2> DEFINE y == [New EXCEPT !["stage"] = "body", !["kept"] = TRUE, !["upload"] = x.upload]
  <2>1. Becomes(e, y) /\ UNCHANGED free
    <3>1. Answered(e)
      BY <1>2, Zenon DEF AwaitHeaders
    <3>2. QED
      BY <1>2, <3>1, Zenon DEF Answered
  <2>2. y \in Exchange
    <3>1. x.upload \in BOOLEAN
      BY <1>1 DEF Exchange
    <3>2. QED
      BY <3>1, NewIsFair DEF Fair, Exchange, Stages
  <2>3. Fair(y) /\ Holds(y) /\ Holds(x) /\ Justified(x, y)
    BY <1>1, <2>2, ConstantTypes DEF Fair, Agrees, New, Unread, Holds, Justified
  <2>4. Moves(e, y)
    BY <2>1, <2>3 DEF Moves
  <2>5. QED
    BY <2>2, <2>4
<1>3. CASE x.answer = "empty"
  <2>1. End(e, "whole", 1, TRUE)
    <3>1. Answered(e)
      BY <1>3, Zenon DEF AwaitHeaders
    <3>2. QED
      BY <1>3, <3>1, Zenon DEF Answered
  <2>2. x.read = 0 /\ x.sent = 0
    BY <1>1 DEF FInv, Fair, Agrees
  <2>3. QED
    BY <1>1, <2>1, <2>2, LearnedEndIsMove
<1>4. CASE x.answer = "failed"
  <2>1. End(e, "failed", 1, FALSE)
    <3>1. Answered(e)
      BY <1>4, Zenon DEF AwaitHeaders
    <3>2. QED
      BY <1>4, <3>1, Zenon DEF Answered
  <2>2. QED
    BY <1>1, <2>1, EndIsMove DEF Ends, Reports
<1>5. CASE x.answer = "none" /\ x.age < x.wait
  <2> DEFINE y == [x EXCEPT !["wait"] = x.age]
  <2>1. Becomes(e, y) /\ UNCHANGED free
    BY <1>5, Zenon DEF AwaitHeaders
  <2>2. y \in Exchange
    BY <1>1 DEF Exchange
  <2>3. Fair(y) /\ Holds(y) = Holds(x) /\ Justified(x, y)
    BY <1>1, <2>2 DEF FInv, Fair, Agrees, Unread, Exchange, Holds, Justified
  <2>4. QED
    BY <2>1, <2>2, <2>3 DEF Moves
<1>6. CASE x.answer = "none" /\ ~(x.age < x.wait)
  <2>1. x.wait >= Idle /\ End(e, "504", 1, FALSE)
    BY <1>6, Zenon DEF AwaitHeaders
  <2>2. x.age >= Idle
    BY <1>1, <1>6, <2>1, ConstantTypes DEF Exchange
  <2>3. QED
    BY <1>1, <1>6, <2>1, <2>2, EndIsMove DEF Ends, Reports
<1>7. QED
  BY <1>1, <1>2, <1>3, <1>4, <1>5, <1>6 DEF Exchange

LEMMA SendMoves ==
  ASSUME FInv, NEW e \in Exchanges, Send(e)
  PROVE  \E y \in Exchange : Moves(e, y)
<1> DEFINE x == ex[e]
           y(what, n) == [x EXCEPT !["arrived"] = what, !["silent"] = 0, !["sent"] = @ + n]
           N(what) == IF what \in {"frame", "last"} THEN 1 ELSE 0
<1>1. PICK what \in {"frame", "last", "end", "error"} :
        /\ x.sent + N(what) <= MaxFrames
        /\ Becomes(e, y(what, N(what)))
  BY Zenon DEF Send
<1>2. x.stage \in {"body", "overflow"} /\ x.arrived = "nothing" /\ UNCHANGED free
  BY Zenon DEF Send
<1>3. x \in Exchange /\ Agrees(x)
  BY DEF FInv, Fair
<1>4. y(what, N(what)) \in Exchange
  <2>1. x.sent + N(what) \in 0..MaxFrames /\ 0 \in 0..Idle
    BY <1>1, <1>3, ConstantTypes DEF Exchange
  <2>2. QED
    BY <1>3, <2>1 DEF Exchange
<1>5. Fair(y(what, N(what))) /\ Holds(y(what, N(what))) = Holds(x)
  BY <1>2, <1>3, <1>4 DEF Fair, Agrees, Unread, Exchange, Holds
<1>6. Justified(x, y(what, N(what)))
  BY <1>3 DEF Justified, Exchange
<1>7. QED
  BY <1>1, <1>2, <1>4, <1>5, <1>6 DEF Moves

\* The frame that the browser is given, field by field.
LEMMA Delivered ==
  ASSUME NEW x \in Exchange, Agrees(x), x.stage = "body", x.arrived \in {"frame", "last"}
  PROVE  /\ Deliver(x) \in Exchange
         /\ Deliver(x).stage = "body" /\ Deliver(x).end = x.end
         /\ Deliver(x).arrived = "nothing" /\ Deliver(x).idle = Off
         /\ Deliver(x).observed = 0
         /\ Deliver(x).sent = x.sent /\ Deliver(x).read = x.sent
         /\ Deliver(x).kept => x.sent <= Limit
<1> DEFINE y == [x EXCEPT !["arrived"] = "nothing", !["read"] = @ + 1, !["idle"] = Off,
                          !["kept"] = @ /\ x.read + 1 <= Limit]
<1>1. Deliver(x) = y
  BY Zenon DEF Deliver, Disarmed
<1>2. x.sent = x.read + 1 /\ x.observed = 0
  BY DEF Agrees, Unread
<1>3. x.read + 1 \in 0..MaxFrames /\ Off \in 0..Off
  BY <1>2, ConstantTypes DEF Exchange
<1>4. y \in Exchange
  BY <1>3 DEF Exchange
<1>5. QED
  BY <1>1, <1>2, <1>4 DEF Exchange

LEMMA ReadBodyMoves ==
  ASSUME FInv, NEW e \in Exchanges, ReadBody(e)
  PROVE  \E y \in Exchange : Moves(e, y)
<1> DEFINE x == ex[e]
<1>1. x \in Exchange /\ Agrees(x) /\ x.stage = "body" /\ x.observed = 0
  BY DEF FInv, Fair, Agrees, ReadBody, In
<1>2. CASE x.arrived = "frame"
  <2>1. Becomes(e, Deliver(x)) /\ UNCHANGED free
    BY <1>2 DEF ReadBody
  <2>2. Fair(Deliver(x)) /\ Holds(Deliver(x)) = Holds(x) /\ Justified(x, Deliver(x))
    <3>1. x.end = "open" /\ x.sent \in Nat
      BY <1>1 DEF Agrees, Exchange
    <3>2. QED
      BY <1>1, <1>2, <3>1, Delivered DEF Fair, Agrees, Unread, Holds, Justified
  <2>3. QED
    BY <2>1, <2>2 DEF Moves, Fair
<1>3. CASE x.arrived = "last"
  <2>1. Complete(e, Deliver(x))
    BY <1>3 DEF ReadBody
  <2>2. Becomes(e, Over(Deliver(x), "whole", 1, Deliver(x).kept)) /\ GiveBack(e)
    BY <2>1 DEF Complete
  <2>3. /\ Reports(Deliver(x), "whole", 1) /\ "whole" \in Ends
        /\ Deliver(x) \in Exchange /\ Deliver(x).kept \in BOOLEAN
        /\ Deliver(x).read = Deliver(x).sent
        /\ Deliver(x).kept => Deliver(x).read <= Limit
    BY <1>1, <1>3, Delivered DEF Reports, Ends, Exchange
  <2>4. QED
    BY <2>2, <2>3, EndMoves
<1>4. CASE x.arrived = "end"
  <2>1. Becomes(e, Over(x, "whole", 1, x.kept)) /\ GiveBack(e)
    BY <1>4 DEF ReadBody, Complete
  <2>2. /\ Reports(x, "whole", 1) /\ "whole" \in Ends /\ x.kept \in BOOLEAN
        /\ x.read = x.sent
        /\ x.kept => x.read <= Limit
    BY <1>1, <1>4 DEF Reports, Ends, Agrees, Unread, Exchange
  <2>3. QED
    BY <1>1, <2>1, <2>2, EndMoves
<1>5. CASE x.arrived = "error"
  <2>1. End(e, "failed", 1, FALSE)
    BY <1>5 DEF ReadBody
  <2>2. QED
    BY <1>1, <2>1, EndIsMove DEF Ends, Reports
<1>6. CASE x.arrived = "nothing" /\ x.idle = Off
  <2> DEFINE y == [x EXCEPT !["idle"] = 0]
  <2>1. Becomes(e, y) /\ UNCHANGED free
    <3>1. PollPending(e, x)
      BY <1>6 DEF ReadBody
    <3>2. QED
      BY <1>6, <3>1, Zenon DEF PollPending
  <2>2. y \in Exchange
    BY <1>1, ConstantTypes DEF Exchange
  <2>3. Fair(y) /\ Holds(y) = Holds(x) /\ Justified(x, y)
    BY <1>1, <2>2 DEF Fair, Agrees, Unread, Holds, Justified, Exchange
  <2>4. QED
    BY <2>1, <2>2, <2>3 DEF Moves
<1>7. CASE x.arrived = "nothing" /\ x.idle # Off
  <2>1. x.idle >= Idle /\ End(e, "idle", 1, FALSE)
    <3>1. PollPending(e, x)
      BY <1>7 DEF ReadBody
    <3>2. QED
      BY <1>7, <3>1, Zenon DEF PollPending
  <2>2. x.silent >= Idle
    BY <1>1, <1>7, <2>1, ConstantTypes DEF Agrees, Exchange
  <2>3. QED
    BY <1>1, <1>7, <2>1, <2>2, EndIsMove DEF Ends, Reports
<1>8. QED
  BY <1>1, <1>2, <1>3, <1>4, <1>5, <1>6, <1>7 DEF Exchange

LEMMA HangUpMoves ==
  ASSUME FInv, NEW e \in Exchanges, HangUp(e)
  PROVE  \E y \in Exchange : Moves(e, y)
<1>1. End(e, "dropped", 0, FALSE) /\ ex[e].stage \notin {"none", "over"}
  BY DEF HangUp
<1>2. ex[e].observed \in {0, 1}
  BY <1>1 DEF FInv, Fair, Agrees, Exchange, Stages
<1>3. QED
  BY <1>1, <1>2, EndIsMove DEF Ends, Reports

LEMMA FetchedMoves ==
  ASSUME FInv, NEW e \in Exchanges, Fetched(e)
  PROVE  \E y \in Exchange : Moves(e, y)
<1> DEFINE x == ex[e]
           Streams(spent) == [New EXCEPT !["stage"] = "overflow", !["sent"] = 2,
                                         !["idle"] = 0, !["total"] = spent,
                                         !["observed"] = 1]
<1>1. /\ In(e, "fetch")
      /\ \/ End(e, "whole", 1, TRUE)
         \/ End(e, "failed", 1, FALSE)
         \/ /\ MaxFrames >= 2
            /\ \E spent \in 0..Total : Becomes(e, Streams(spent))
            /\ UNCHANGED free
  BY Zenon DEF Fetched
<1>2. x \in Exchange /\ x.stage = "fetch" /\ x.observed = 0 /\ x.read = 0 /\ x.sent = 0
  BY <1>1 DEF In, FInv, Fair, Agrees
<1>3. CASE End(e, "whole", 1, TRUE)
  BY <1>2, <1>3, LearnedEndIsMove
<1>4. CASE End(e, "failed", 1, FALSE)
  BY <1>2, <1>4, EndIsMove DEF Ends, Reports
<1>5. CASE /\ MaxFrames >= 2
           /\ \E spent \in 0..Total : Becomes(e, Streams(spent))
           /\ UNCHANGED free
  <2>1. PICK spent \in 0..Total : Becomes(e, Streams(spent))
    BY <1>5
  <2> DEFINE y == Streams(spent)
  <2>2. 2 \in 0..MaxFrames /\ 0 \in 0..Off
    BY <1>5, ConstantTypes
  <2>3. y \in Exchange
    BY <2>1, <2>2, NewIsFair DEF Fair, Exchange, Stages
  <2>4. Fair(y) /\ Holds(y) = Holds(x) /\ Justified(x, y)
    BY <1>2, <2>3 DEF New, Fair, Agrees, Unread, Holds, Justified
  <2>5. QED
    BY <1>5, <2>1, <2>3, <2>4 DEF Moves
<1>6. QED
  BY <1>1, <1>3, <1>4, <1>5

LEMMA ReadOverflowMoves ==
  ASSUME FInv, NEW e \in Exchanges, ReadOverflow(e)
  PROVE  \E y \in Exchange : Moves(e, y)
<1> DEFINE x == ex[e]
           more == [x EXCEPT !["read"] = @ + 1]
           late == x.idle >= Idle \/ x.total >= Total
<1>1. /\ x \in Exchange /\ Agrees(x) /\ x.stage = "overflow" /\ x.end = "open"
      /\ x.observed = 1 /\ x.sent = Unread(x) + IF x.read < 2 THEN 2 ELSE x.read
  BY DEF FInv, Fair, Agrees, ReadOverflow, In
<1>2. CASE late
  <2>1. End(e, "cut", 0, FALSE)
    BY <1>2, Zenon DEF ReadOverflow, Cut
  <2>2. QED
    BY <1>1, <2>1, EndIsMove DEF Ends, Reports
<1>3. CASE ~late /\ x.read < 2
  <2>1. Becomes(e, more) /\ UNCHANGED free
    BY <1>3, Zenon DEF ReadOverflow
  <2>2. x.read + 1 \in 0..MaxFrames
    BY <1>1, <1>3, ConstantTypes DEF Exchange, Unread
  <2>3. more \in Exchange
    BY <1>1, <2>2 DEF Exchange
  <2>4. Fair(more) /\ Holds(more) = Holds(x) /\ Justified(x, more)
    BY <1>1, <1>3, <2>3 DEF Fair, Agrees, Unread, Holds, Justified, Exchange
  <2>5. QED
    BY <2>1, <2>3, <2>4 DEF Moves
<1>4. CASE ~late /\ ~(x.read < 2) /\ x.arrived = "frame"
  <2> DEFINE y == [more EXCEPT !["arrived"] = "nothing", !["idle"] = 0]
  <2>1. Becomes(e, y) /\ UNCHANGED free
    BY <1>4, Zenon DEF ReadOverflow
  <2>2. x.read + 1 \in 0..MaxFrames /\ 0 \in 0..Off
    BY <1>1, <1>4, ConstantTypes DEF Exchange, Unread
  <2>3. more \in Exchange
    BY <1>1, <2>2 DEF Exchange
  <2>4. y \in Exchange
    BY <2>2, <2>3 DEF Exchange
  <2>5. Fair(y) /\ Holds(y) = Holds(x) /\ Justified(x, y)
    BY <1>1, <1>4, <2>4 DEF Fair, Agrees, Unread, Holds, Justified, Exchange
  <2>6. QED
    BY <2>1, <2>4, <2>5 DEF Moves
<1>5. CASE ~late /\ ~(x.read < 2) /\ x.arrived = "last"
  <2>1. Becomes(e, Over(more, "whole", 0, FALSE)) /\ GiveBack(e)
    BY <1>5, Zenon DEF ReadOverflow
  <2>2. x.read + 1 = x.sent
    BY <1>1, <1>5 DEF Exchange, Unread
  <2>3. /\ more \in Exchange /\ Reports(more, "whole", 0) /\ "whole" \in Ends
        /\ more.read = more.sent
    BY <1>1, <2>2 DEF Exchange, Ends, Reports
  <2>4. QED
    BY <2>1, <2>3, EndMoves
<1>6. CASE ~late /\ ~(x.read < 2) /\ x.arrived = "end"
  <2>1. End(e, "whole", 0, FALSE)
    BY <1>6, Zenon DEF ReadOverflow
  <2>2. x.read = x.sent
    BY <1>1, <1>6 DEF Exchange, Unread
  <2>3. QED
    BY <1>1, <2>1, <2>2, EndIsMove DEF Ends, Reports
<1>7. CASE ~late /\ ~(x.read < 2) /\ x.arrived = "error"
  <2>1. End(e, "failed", 0, FALSE)
    BY <1>7, Zenon DEF ReadOverflow
  <2>2. QED
    BY <1>1, <2>1, EndIsMove DEF Ends, Reports
<1>8. x.arrived = "nothing" => late \/ x.read < 2
  BY Zenon DEF ReadOverflow
<1>9. QED
  BY <1>1, <1>2, <1>3, <1>4, <1>5, <1>6, <1>7, <1>8 DEF Exchange

LEMMA AgainMoves ==
  ASSUME FInv, NEW e \in Exchanges, Again(e)
  PROVE  \E y \in Exchange : Moves(e, y)
<1>1. ~Holds(ex[e]) /\ Becomes(e, New) /\ UNCHANGED free
  BY DEF Again, In, Holds
<1>2. New.end = "open"
  BY DEF New
<1>3. Holds(New) = Holds(ex[e]) /\ Justified(ex[e], New)
  BY <1>1, <1>2, NewIsFair DEF Justified, Holds
<1>4. QED
  BY <1>1, <1>3, NewIsFair DEF Moves, Fair

\* Every step of a task or of its peers is such a move.
LEMMA StepMoves ==
  ASSUME FInv, NEW e \in Exchanges, Task(e) \/ Peers(e)
  PROVE  \E y \in Exchange : Moves(e, y)
BY AskMoves, TakePermitMoves, UploadMoves, AnswerMoves, AwaitHeadersMoves, SendMoves,
   ReadBodyMoves, HangUpMoves, FetchedMoves, ReadOverflowMoves, AgainMoves DEF Task, Peers

\* Time ages the timers and nothing else.
LEMMA AgedAgrees ==
  ASSUME NEW x \in Exchange, Agrees(x)
  PROVE  /\ Fair(Aged(x)) /\ Holds(Aged(x)) = Holds(x)
         /\ Aged(x).end = x.end
<1>1. Idle \in Nat /\ Total \in Nat /\ Off = Idle + 1
  BY ConstantTypes
<1>2. CASE x.stage = "sending"
  <2> DEFINE y == [x EXCEPT !["age"] = Later(@, Idle), !["wait"] = Later(@, Idle)]
  <2>1. Aged(x) = y
    BY <1>2, Zenon DEF Aged
  <2>2. Later(x.age, Idle) \in 0..Idle /\ Later(x.wait, Idle) \in 0..Idle
    BY <1>1 DEF Later, Exchange
  <2>3. y \in Exchange
    BY <2>2 DEF Exchange
  <2>4. QED
    BY <1>2, <2>1, <2>3 DEF Fair, Agrees, Exchange, Holds
<1>3. CASE x.stage = "body"
  <2> DEFINE y == [x EXCEPT !["idle"] = IF @ = Off THEN Off ELSE Later(@, Idle),
                            !["silent"] = Later(@, Idle)]
  <2>1. Aged(x) = y
    BY <1>3, Zenon DEF Aged
  <2>2. /\ (IF x.idle = Off THEN Off ELSE Later(x.idle, Idle)) \in 0..Off
        /\ Later(x.silent, Idle) \in 0..Idle
        /\ x.idle <= x.silent => Later(x.idle, Idle) <= Later(x.silent, Idle)
    BY <1>1 DEF Later, Exchange
  <2>3. y \in Exchange
    BY <2>2 DEF Exchange
  <2>4. QED
    BY <1>3, <2>1, <2>2, <2>3 DEF Fair, Agrees, Unread, Exchange, Holds
<1>4. CASE x.stage = "overflow"
  <2> DEFINE y == [x EXCEPT !["idle"] = Later(@, Idle), !["total"] = Later(@, Total)]
  <2>1. Aged(x) = y
    BY <1>4, Zenon DEF Aged
  <2>2. Later(x.idle, Idle) \in 0..Off /\ Later(x.total, Total) \in 0..Total
    BY <1>1 DEF Later, Exchange
  <2>3. y \in Exchange
    BY <2>2 DEF Exchange
  <2>4. QED
    BY <1>4, <2>1, <2>3 DEF Fair, Agrees, Unread, Exchange, Holds
<1>5. CASE x.stage \notin {"sending", "body", "overflow"}
  <2>1. Aged(x) = x
    BY <1>5, Zenon DEF Aged
  <2>2. QED
    BY <2>1 DEF Fair
<1>6. QED
  BY <1>2, <1>3, <1>4, <1>5

LEMMA TickKeeps ==
  ASSUME FInv, Tick
  PROVE  FInv' /\ \A e \in Exchanges : ex'[e].end = ex[e].end
<1>1. /\ ex' = [e \in Exchanges |-> Aged(ex[e])] /\ free' = free
      /\ \A e \in Exchanges : ex[e] \in Exchange /\ Agrees(ex[e])
  BY DEF Tick, FInv, Fair
<1>2. \A e \in Exchanges : /\ Fair(ex'[e]) /\ Holds(ex'[e]) = Holds(ex[e])
                           /\ ex'[e].end = ex[e].end
  BY <1>1, AgedAgrees
<1>3. Holders' = Holders
  BY <1>2 DEF Holders
<1>4. QED
  BY <1>1, <1>2, <1>3 DEF FInv

LEMMA FInit == Init => FInv
<1> SUFFICES ASSUME Init PROVE FInv
  OBVIOUS
<1>1. Holders = {}
  BY NewIsFair DEF Init, Holders
<1>2. QED
  BY <1>1, NewIsFair, ConstantTypes, FS_EmptySet DEF Init, FInv

LEMMA FNext == FInv /\ [Next]_forwardVars => FInv'
<1> SUFFICES ASSUME FInv, [Next]_forwardVars PROVE FInv'
  OBVIOUS
<1>1. CASE Tick
  BY <1>1, TickKeeps
<1>2. ASSUME NEW e \in Exchanges, Task(e) \/ Peers(e) PROVE FInv'
  BY <1>2, StepMoves, MoveKeeps
<1>3. CASE UNCHANGED forwardVars
  BY <1>3 DEF forwardVars, FInv, Holders
<1>4. QED
  BY <1>1, <1>2, <1>3 DEF Next

LEMMA Inductive == Spec => []FInv
BY FInit, FNext, PTL DEF Spec

-----------------------------------------------------------------------------
(* The theorems.                                                           *)

\* Every way an exchange can end gives its API permit back once, for any number
\* of exchanges and permits; and every record keeps its type.
THEOREM PermitsAreReturned == Spec => []PermitsReturned
<1>1. FInv => PermitsReturned
  <2> SUFFICES ASSUME FInv PROVE PermitsReturned
    OBVIOUS
  <2>1. free \in 0..Api
    BY HoldersFinite, ConstantTypes DEF FInv
  <2>2. ex \in [Exchanges -> Exchange]
    BY DEF FInv, Fair
  <2>3. QED
    BY <2>1, <2>2 DEF FInv, PermitsReturned, TypeOK, Holders
<1>2. QED
  BY <1>1, Inductive, PTL

\* The engine hears of an exchange once unless it was dropped, and is given a body
\* only when that is the whole of it and within the limit.
THEOREM ObservedOnlyOnce == Spec => []ObservedOnce
<1>1. FInv => ObservedOnce
  BY DEF FInv, Fair, Agrees, ObservedOnce, In
<1>2. QED
  BY <1>1, Inductive, PTL

\* A body that ends cleanly was delivered completely, whatever timers and limits do.
THEOREM TruncationShows == Spec => []NoSilentTruncation
<1>1. FInv => NoSilentTruncation
  BY DEF FInv, Fair, Agrees, NoSilentTruncation
<1>2. QED
  BY <1>1, Inductive, PTL

\* No timeout accuses a peer that was active, however late the task is woken.
THEOREM TimeoutsAreTrue == Spec => NoFalseTimeout
<1> DEFINE True == \A e \in Exchanges : Justified(ex[e], ex'[e])
<1>1. FInv /\ [Next]_forwardVars => True
  <2> SUFFICES ASSUME FInv, [Next]_forwardVars, NEW d \in Exchanges
               PROVE  Justified(ex[d], ex'[d])
    OBVIOUS
  <2>1. CASE Tick
    BY <2>1, TickKeeps DEF Justified
  <2>2. ASSUME NEW e \in Exchanges, Task(e) \/ Peers(e) PROVE Justified(ex[d], ex'[d])
    <3>1. PICK y \in Exchange : Moves(e, y)
      BY <2>2, StepMoves
    <3>2. ex'[d] = IF d = e THEN y ELSE ex[d]
      BY <3>1 DEF Moves, Becomes, FInv
    <3>3. QED
      BY <3>1, <3>2 DEF Moves, Justified
  <2>3. CASE UNCHANGED forwardVars
    BY <2>3 DEF forwardVars, Justified
  <2>4. QED
    BY <2>1, <2>2, <2>3 DEF Next
<1>2. [][True]_forwardVars => UploadNotCut /\ SilenceIsUpstreams
  <2>1. [True]_forwardVars =>
          /\ [\A e \in Exchanges : ex'[e].end = "504" /\ ex[e].end # "504" =>
                 ex[e].age >= Idle /\ ex[e].answer = "none"]_forwardVars
          /\ [\A e \in Exchanges : ex'[e].end = "idle" /\ ex[e].end # "idle" =>
                 ex[e].silent >= Idle /\ ex[e].arrived = "nothing"]_forwardVars
    BY DEF Justified
  <2>2. QED
    BY <2>1, PTL DEF UploadNotCut, SilenceIsUpstreams
<1>3. QED
  BY <1>1, <1>2, Inductive, PTL DEF Spec, NoFalseTimeout
=============================================================================
