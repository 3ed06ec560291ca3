--------------------------- MODULE DeliveryProofs ---------------------------
(***************************************************************************)
(* Proofs about Delivery, for every set of operators, messages and         *)
(* deployments, any page, any window and any height of the chain.          *)
(***************************************************************************)
EXTENDS Delivery, FiniteSetTheorems, TLAPS

-----------------------------------------------------------------------------
(* The invariant.                                                          *)

Txs == [by : Ops \cup {External}, msg : Msgs]
Seen == {"Success", "Failure"}
States == {Unknown, "Pending", "Skipped", "Submitted", "Failed", "Confirmed"}
Entry == [tx : Txs,
          outcome : {"reverted", "verified", "executed", "already"} \cup Seen,
          block : Nat]
RowData == [state : States, tx : Txs \cup {NoTx}, exec : {Unknown} \cup Seen, delivery : Txs \cup {NoTx}]
ProgressData == [state : States, tx : Txs \cup {NoTx}, exec : {Unknown} \cup Seen,
                 delivery : Txs \cup {NoTx}]

Steps == {"idle", "send", "event", "ready", "ask", "receipt", "logs",
          "verified", "failed", "timedout"}
CliData == [pc : Steps, goal : {Unknown, "send", "e2e"},
            id : Msgs \cup {Unknown}, tx : Msgs \cup {Unknown}, start : Nat,
            asked : 0 .. Len(Operators), shown : SUBSET Ops,
            progress : ProgressData, proof : Txs \cup {NoTx}]

Typed ==
  /\ world \in Worlds
  /\ nonce \in 0 .. Len(Ids) /\ height \in Nat
  /\ mined \in Seq(Entry)
  /\ signed \in [Ops -> SUBSET Msgs]
  /\ row \in [Ops -> [Msgs -> RowData]]
  /\ msgCache \in Msgs \cup {Unknown}
  /\ cli \in CliData

(* There is a message to send, and one was sent when its event is read.    *)
SendHasMessage ==
  /\ cli.pc = "send" => nonce < Len(Ids)
  /\ cli.pc = "event" => nonce > 0

(* Each deployment has outcomes of its own.                                *)
OutcomesFit ==
  \A i \in DOMAIN mined :
    /\ mined[i].outcome = "verified" => world.mode = "layerzero"
    /\ mined[i].outcome = "executed" => world.mode = "mock"
    /\ world.mode = "mock" => mined[i].outcome \in {"reverted", "executed"}

(* A transaction of the chain ended in this way, or did not revert.        *)
Ended(tx, outcome) == \E i \in DOMAIN mined : mined[i].tx = tx /\ mined[i].outcome = outcome
Stands(tx) == \E i \in DOMAIN mined : mined[i].tx = tx /\ mined[i].outcome # "reverted"

(* What a row says happened.                                               *)
RowIsTrue(o, m) ==
  LET r == row[o][m]
  IN  /\ r.exec = Unknown => r.delivery = NoTx
      /\ r.exec # Unknown => Ended(r.delivery, r.exec) /\ r.delivery.msg = m
      /\ r.tx # NoTx => r.tx = Own(o, m) /\ Stands(r.tx)
      /\ r.state = "Confirmed" => r.tx # NoTx
      /\ r.state = "Failed" => Ended(Own(o, m), "reverted")

RowsAreTrue == \A o \in Ops, m \in Msgs : RowIsTrue(o, m)

(* So does what a watch gathers, of the messages it was asked about.       *)
Told(p) ==
  /\ p.exec = Unknown => p.delivery = NoTx
  /\ p.exec # Unknown => Ended(p.delivery, p.exec) /\ p.delivery.msg \in {cli.id, cli.tx}
  /\ p.tx # NoTx => p.tx.msg \in {cli.id, cli.tx}
  /\ p.state = "Confirmed" => Stands(p.tx)

ProgressIsTrue ==
  /\ Told(cli.progress)
  /\ cli.pc = "receipt" => cli.progress.exec = Unknown

(* The row, and what was gathered, holds how the message ended.            *)
Holds(o, m) ==
  \/ world.mode = "ccip" /\ row[o][m].exec # Unknown
  \/ world.mode = "mock" /\ row[o][m].state = "Confirmed"
Gathered(p) ==
  \/ world.mode = "ccip" /\ p.exec # Unknown
  \/ world.mode = "mock" /\ p.state = "Confirmed"

(* An operator that could show it still can, unless other messages crowded *)
(* it out, and once it was asked the watch has gathered it.                *)
RoundIsKept ==
  /\ \A o \in cli.shown : cli.id \in signed[o] /\ Holds(o, cli.id)
  /\ cli.pc \in {"ask", "receipt"} /\ cli.id = cli.tx =>
       \A o \in cli.shown, k \in 1 .. cli.asked :
         Operators[k] = o /\ cli.id \in Listed(o) => Gathered(cli.progress)
  /\ cli.pc = "receipt" => cli.asked = Len(Operators)
  /\ cli.pc \notin {"ask", "receipt"} => cli.progress = NoProgress
  /\ cli.pc \notin {"ask", "receipt", "logs"} => cli.shown = {}

DeliveryInv ==
  /\ Typed
  /\ SendHasMessage
  /\ OutcomesFit
  /\ RowsAreTrue
  /\ ProgressIsTrue
  /\ RoundIsKept
  /\ VerdictIsTrue
  /\ KnownIsTold


-----------------------------------------------------------------------------
(* The data, and the page of an operator.                                  *)

LEMMA MsgsAreFinite == IsFiniteSet(Msgs)
<1>1. Ids \in [1 .. Len(Ids) -> Msgs] /\ Len(Ids) \in Nat
  BY DeliveryConstants
<1>2. \A m \in Msgs : \E i \in 1 .. Len(Ids) : Ids[i] = m
  BY <1>1 DEF Msgs, ToSet
<1>3. Ids \in Surjection(1 .. Len(Ids), Msgs)
  BY <1>1, <1>2 DEF Surjection
<1>4. IsFiniteSet(1 .. Len(Ids))
  BY <1>1, FS_Interval
<1> QED
  BY <1>3, <1>4, FS_Surjection

LEMMA IdsAreMsgs ==
  /\ Len(Ids) \in Nat /\ \A i \in 1 .. Len(Ids) : Ids[i] \in Msgs
  /\ Len(Operators) \in Nat /\ \A k \in 1 .. Len(Operators) : Operators[k] \in Ops
  /\ \A j, k \in 1 .. Len(Operators) : Operators[j] = Operators[k] => j = k
  /\ Unknown \notin Msgs
BY DeliveryConstants DEF IsInjective

(* No message precedes itself.                                             *)
LEMMA PrecedesIsStrict == \A m \in Msgs : ~Precedes(m, m)
BY DeliveryConstants DEF Precedes, IsInjective

LEMMA NothingIsNoTx ==
  /\ NoTx.msg = Unknown /\ NoTx \notin Txs
  /\ \A tx \in Txs : tx.msg \in Msgs /\ tx # NoTx
BY IdsAreMsgs DEF NoTx, Txs

LEMMA NoProgressFields ==
  /\ NoProgress \in ProgressData
  /\ NoProgress.state = Unknown /\ NoProgress.tx = NoTx
  /\ NoProgress.exec = Unknown /\ NoProgress.delivery = NoTx
BY DEF NoProgress, ProgressData, States

LEMMA IdleFields ==
  /\ Idle \in CliData /\ Idle.pc = "idle" /\ Idle.shown = {} /\ Idle.progress = NoProgress
<1>1. 0 \in 0 .. Len(Operators)
  BY IdsAreMsgs
<1> HIDE DEF NoProgress, NoTx
<1> QED
  BY <1>1, NoProgressFields DEF Idle, CliData, Steps

(* A message an operator has signed leaves its first page as others are    *)
(* signed, and never comes back.                                           *)
LEMMA ListedShrinks ==
  ASSUME Typed, Typed', NEW o \in Ops, signed[o] \subseteq signed[o]',
         NEW m \in signed[o], m \in Listed(o)'
  PROVE  m \in Listed(o)
<1> DEFINE before == {n \in signed[o] : Precedes(n, m)}
           after  == {n \in signed[o]' : Precedes(n, m)}
<1>1. IsFiniteSet(after) /\ before \in SUBSET after
  <2>1. after \in SUBSET Msgs
    BY DEF Typed
  <2> QED
    BY <2>1, MsgsAreFinite, FS_Subset
<1>2. /\ IsFiniteSet(before) /\ Cardinality(before) <= Cardinality(after)
      /\ Cardinality(before) \in Nat /\ Cardinality(after) \in Nat
  BY <1>1, FS_Subset, FS_CardinalityType
<1>3. Cardinality(after) < Page /\ Page \in Nat
  BY DeliveryConstants DEF Listed
<1> HIDE DEF before, after
<1>4. Cardinality(before) < Page
  BY <1>2, <1>3
<1> QED
  BY <1>4 DEF Listed, before

-----------------------------------------------------------------------------
(* The steps of the operators and of the chain.                            *)

ChainStep ==
  \/ \E o \in Ops, m \in Msgs : \/ Sign(o, m) \/ Submit(o, m)
                              \/ Settle(o, m) \/ TakeBack(o, m)
  \/ \E o \in Ops, i \in DOMAIN mined : Report(o, i)
  \/ \E by \in Ops \cup {External}, m \in Msgs : Execute(by, m)
  \/ MineEmpty

(* What such a step leaves of the command, and of what was there.          *)
SameCommand ==
  /\ cli' \in CliData /\ cli'.shown \subseteq cli.shown
  /\ cli'.pc = cli.pc /\ cli'.id = cli.id /\ cli'.tx = cli.tx /\ cli'.asked = cli.asked
  /\ cli'.progress = cli.progress /\ cli'.proof = cli.proof

Grows ==
  /\ UNCHANGED <<world, nonce, msgCache>> /\ SameCommand
  /\ \A i \in DOMAIN mined : i \in DOMAIN mined' /\ mined'[i] = mined[i]
  /\ \A o \in Ops : signed[o] \subseteq signed'[o]
  /\ \A o \in cli'.shown : cli.id \in Msgs /\ Holds(o, cli.id) => Holds(o, cli.id)'

LEMMA EndsLast ==
  ASSUME \A i \in DOMAIN mined : i \in DOMAIN mined' /\ mined'[i] = mined[i]
  PROVE  /\ \A tx, outcome : Ended(tx, outcome) => Ended(tx, outcome)'
         /\ \A tx : Stands(tx) => Stands(tx)'
BY DEF Ended, Stands

(* The rows as SubmissionRows sees them.                                   *)
RowStates   == [k \in Ops \X Msgs |-> IF row[k[1]][k[2]].state = Unknown THEN "Absent"
                                      ELSE row[k[1]][k[2]].state]
RowOutcomes == [k \in Ops \X Msgs |-> IF row[k[1]][k[2]].exec = Unknown THEN "None"
                                      ELSE row[k[1]][k[2]].exec]
EndsSoFar ==
  {e \in (Ops \X Msgs) \X {"confirmed", "failed"} :
     \E i \in DOMAIN mined : /\ mined[i].tx = Own(e[1][1], e[1][2])
                            /\ (e[2] = "failed" <=> mined[i].outcome = "reverted")}
OutcomesSoFar ==
  {e \in (Ops \X Msgs) \X {"Success", "Failure"} :
     \E i \in DOMAIN mined : mined[i].tx.msg = e[1][2] /\ mined[i].outcome = e[2]}

(* A row that says of its transaction and of the execution what happened.  *)
SaysTheTruth(o, m, r) ==
  /\ r.exec = Unknown => r.delivery = NoTx
  /\ r.exec # Unknown => Ended(r.delivery, r.exec) /\ r.delivery.msg = m
  /\ r.tx # NoTx => r.tx = Own(o, m) /\ Stands(r.tx)
  /\ r.state = "Confirmed" => r.tx # NoTx
  /\ r.state = "Failed" => Ended(Own(o, m), "reverted")

(* One that may replace the row there is: an outcome stays, and without    *)
(* one nothing becomes new again or is taken up that was left to another.  *)
MayReplace(o, m, r) ==
  /\ r.state # Unknown
  /\ row[o][m].exec # Unknown => r.exec = row[o][m].exec
  /\ r.exec = Unknown /\ r.state = "Pending" => row[o][m].state \in {Unknown, "Pending"}
  /\ r.exec = Unknown /\ row[o][m].state = "Skipped" => r.state = "Skipped"

(* Such a step is a save of SubmissionRows.                                *)
LEMMA SaveImplementsRows ==
  ASSUME Typed, NEW o \in Ops, NEW m \in Msgs, NEW r \in RowData, UNCHANGED mined,
         row' = [row EXCEPT ![o][m] = r], SaysTheTruth(o, m, r), MayReplace(o, m, r)
  PROVE  Rows!Next
<1>1. /\ row \in [Ops -> [Msgs -> RowData]] /\ row[o][m] \in RowData
      /\ row[o][m].state \in States /\ row[o][m].exec \in {Unknown} \cup Seen
      /\ r.state \in States /\ r.exec \in {Unknown} \cup Seen
  BY DEF Typed, RowData
<1>2. PICK k \in Ops \X Msgs : k = <<o, m>> /\ k[1] = o /\ k[2] = m
  <2>1. <<o, m>> \in Ops \X Msgs /\ <<o, m>>[1] = o /\ <<o, m>>[2] = m
    OBVIOUS
  <2> QED
    BY <2>1
<1>3. PICK s \in {"Pending", "Skipped", "Submitted", "Failed", "Confirmed"} : s = r.state
  BY <1>1 DEF MayReplace, States
<1>4. PICK x \in {"None", "Success", "Failure"} : x = IF r.exec = Unknown THEN "None" ELSE r.exec
  BY <1>1 DEF Seen
<1>5. /\ \A p \in Ops, n \in Msgs : row'[p][n] = IF <<p, n>> = <<o, m>> THEN r ELSE row[p][n]
  BY <1>1
<1>6. \A j \in Ops \X Msgs : j[1] \in Ops /\ j[2] \in Msgs /\ (<<j[1], j[2]>> = <<o, m>> <=> j = k)
  BY <1>2
<1>7. RowStates' = [RowStates EXCEPT ![k] = s]
  <2>1. \A j \in Ops \X Msgs : RowStates'[j] = IF j = k THEN s ELSE RowStates[j]
    BY <1>3, <1>5, <1>6 DEF RowStates, Unknown
  <2> QED
    BY <2>1 DEF RowStates
<1>8. RowOutcomes' = [RowOutcomes EXCEPT ![k] = x]
  <2>1. \A j \in Ops \X Msgs : RowOutcomes'[j] = IF j = k THEN x ELSE RowOutcomes[j]
    BY <1>4, <1>5, <1>6 DEF RowOutcomes
  <2> QED
    BY <2>1 DEF RowOutcomes
<1>9. /\ RowStates[k] = IF row[o][m].state = Unknown THEN "Absent" ELSE row[o][m].state
      /\ RowOutcomes[k] = IF row[o][m].exec = Unknown THEN "None" ELSE row[o][m].exec
  BY <1>2 DEF RowStates, RowOutcomes
<1>10. EndsSoFar' = EndsSoFar /\ OutcomesSoFar' = OutcomesSoFar
  BY DEF EndsSoFar, OutcomesSoFar
<1>11. /\ s = "Confirmed" => <<k, "confirmed">> \in EndsSoFar
       /\ s = "Failed" => <<k, "failed">> \in EndsSoFar
  BY <1>2, <1>3 DEF SaysTheTruth, Stands, Ended, EndsSoFar
<1>12. x # "None" => <<k, x>> \in OutcomesSoFar
  BY <1>2, <1>4 DEF SaysTheTruth, Ended, OutcomesSoFar
<1>13. /\ row[o][m].exec # Unknown => x = row[o][m].exec
       /\ x = "None" /\ s = "Pending" => row[o][m].state \in {Unknown, "Pending"}
       /\ x = "None" /\ row[o][m].state = "Skipped" => s = "Skipped"
  BY <1>1, <1>3, <1>4 DEF MayReplace, Seen
<1>14. /\ RowOutcomes[k] # "None" => x = RowOutcomes[k]
       /\ x = "None" /\ s = "Pending" => RowStates[k] \in {"Absent", "Pending"}
       /\ x = "None" /\ RowStates[k] \in {"Skipped", "Deduplicated"} => s = RowStates[k]
  BY <1>1, <1>9, <1>13 DEF States, Seen
<1>15. Rows!Save(k, s, x)
  BY <1>7, <1>8, <1>10, <1>11, <1>12, <1>14
  DEF Rows!Save, Rows!Fresh, Rows!Left, RowStates, RowOutcomes, EndsSoFar, OutcomesSoFar
<1>16. s \in Rows!Fresh \cup Rows!Left \cup {"Submitted", "Confirmed", "Failed"}
  BY DEF Rows!Fresh, Rows!Left
<1> QED
  BY <1>15, <1>16 DEF Rows!Next

(* A step that leaves the rows alone lets the chain go on.                 *)
LEMMA ProceedImplementsRows ==
  ASSUME UNCHANGED row, \A i \in DOMAIN mined : i \in DOMAIN mined' /\ mined'[i] = mined[i]
  PROVE  Rows!Next
<1>1. RowStates' = RowStates /\ RowOutcomes' = RowOutcomes
  BY DEF RowStates, RowOutcomes
<1>2. EndsSoFar \subseteq EndsSoFar' /\ OutcomesSoFar \subseteq OutcomesSoFar'
  BY DEF EndsSoFar, OutcomesSoFar
<1>3. Rows!Proceed
  BY <1>1, <1>2 DEF Rows!Proceed, RowStates, RowOutcomes, EndsSoFar, OutcomesSoFar
<1> QED
  BY <1>3 DEF Rows!Next

LEMMA SignKeeps ==
  ASSUME DeliveryInv, NEW o \in Ops, NEW m \in Msgs, Sign(o, m)
  PROVE  Grows /\ Typed' /\ OutcomesFit' /\ RowsAreTrue' /\ Rows!Next
<1>1. /\ signed' = [signed EXCEPT ![o] = @ \cup {m}]
      /\ UNCHANGED <<world, nonce, height, mined, row, msgCache, cli>>
  BY DEF Sign, chainVars
<1>2. Typed' /\ \A p \in Ops : signed[p] \subseteq signed'[p]
  BY <1>1 DEF DeliveryInv, Typed
<1>3. Rows!Next
  BY <1>1, ProceedImplementsRows
<1> QED
  BY <1>1, <1>2, <1>3 DEF DeliveryInv, Typed, Grows, SameCommand, Holds, OutcomesFit, RowsAreTrue,
                          RowIsTrue, Ended, Stands

LEMMA MineEmptyKeeps ==
  ASSUME DeliveryInv, MineEmpty
  PROVE  Grows /\ Typed' /\ OutcomesFit' /\ RowsAreTrue' /\ Rows!Next
<1>1. Grows /\ Typed' /\ OutcomesFit' /\ RowsAreTrue'
  BY DEF MineEmpty, DeliveryInv, Typed, Grows, SameCommand, Holds, OutcomesFit, RowsAreTrue,
         RowIsTrue, Ended, Stands, operatorVars
<1>2. Rows!Next
  BY ProceedImplementsRows DEF MineEmpty, operatorVars
<1> QED
  BY <1>1, <1>2

(* A step that writes one row, with a row that is true and holds what the  *)
(* one before held.                                                        *)
LEMMA RowWritten ==
  ASSUME DeliveryInv, NEW o \in Ops, NEW m \in Msgs, NEW r \in RowData,
         UNCHANGED <<world, nonce, height, mined, signed, msgCache>>, SameCommand,
         row' = [row EXCEPT ![o][m] = r], SaysTheTruth(o, m, r), MayReplace(o, m, r),
         \/ row[o][m].state = "Confirmed" => r.state = "Confirmed"
         \/ world.mode = "mock" => m # cli.id \/ o \notin cli'.shown
  PROVE  Grows /\ Typed' /\ OutcomesFit' /\ RowsAreTrue' /\ Rows!Next
<1>1. row \in [Ops -> [Msgs -> RowData]]
  BY DEF DeliveryInv, Typed
<1>2. /\ row' \in [Ops -> [Msgs -> RowData]] /\ row'[o][m] = r
      /\ \A p \in Ops, n \in Msgs : <<p, n>> # <<o, m>> => row'[p][n] = row[p][n]
  BY <1>1
<1>3. Typed'
  BY <1>2 DEF DeliveryInv, Typed, SameCommand
<1>4. RowsAreTrue'
  <2> SUFFICES ASSUME NEW p \in Ops, NEW n \in Msgs
               PROVE  RowIsTrue(p, n)'
    BY DEF RowsAreTrue
  <2>1. CASE p = o /\ n = m
    BY <1>2, <2>1 DEF RowIsTrue, SaysTheTruth, Ended, Stands
  <2>2. CASE <<p, n>> # <<o, m>>
    BY <1>2, <2>2 DEF DeliveryInv, RowsAreTrue, RowIsTrue, Ended, Stands
  <2> QED
    BY <2>1, <2>2
<1>5. ASSUME NEW p \in cli'.shown, cli.id \in Msgs, Holds(p, cli.id)
      PROVE  Holds(p, cli.id)'
  <2>0. p \in Ops
    BY DEF DeliveryInv, Typed, CliData, SameCommand
  <2>1. CASE p = o /\ cli.id = m
    BY <1>2, <1>5, <2>1 DEF Holds, SameCommand, MayReplace
  <2>2. CASE <<p, cli.id>> # <<o, m>>
    BY <1>2, <1>5, <2>0, <2>2 DEF Holds, SameCommand
  <2> QED
    BY <2>1, <2>2
<1>6. Rows!Next
  BY SaveImplementsRows DEF DeliveryInv
<1> QED
  BY <1>3, <1>4, <1>5, <1>6 DEF DeliveryInv, Grows, OutcomesFit

LEMMA SubmitKeeps ==
  ASSUME DeliveryInv, NEW o \in Ops, NEW m \in Msgs, Submit(o, m)
  PROVE  Grows /\ Typed' /\ OutcomesFit' /\ RowsAreTrue' /\ Rows!Next
<1>1. PICK s \in {"Pending", "Submitted", "Skipped"} :
        row' = [row EXCEPT ![o][m].state = s, ![o][m].tx = NoTx]
  BY DEF Submit
<1>2. /\ row \in [Ops -> [Msgs -> RowData]] /\ row[o][m].state \in {Unknown, "Pending"}
      /\ UNCHANGED <<world, nonce, height, mined, signed, msgCache, cli>> /\ SameCommand
  BY DEF Submit, chainVars, DeliveryInv, Typed, SameCommand
<1> DEFINE r == [row[o][m] EXCEPT !.state = s, !.tx = NoTx]
<1>3. /\ r \in RowData /\ r.state = s /\ r.exec = row[o][m].exec
      /\ r.delivery = row[o][m].delivery /\ r.tx = NoTx
  <2>1. row[o][m] \in RowData /\ s \in States
    BY <1>2 DEF States
  <2> QED
    BY <2>1 DEF RowData
<1>4. row' = [row EXCEPT ![o][m] = r]
  BY <1>1, <1>2
<1>5. RowIsTrue(o, m)
  BY DEF DeliveryInv, RowsAreTrue
<1> HIDE DEF r
<1> QED
  BY <1>2, <1>3, <1>4, <1>5, RowWritten DEF RowIsTrue, SaysTheTruth, MayReplace, Unknown

LEMMA SettleKeeps ==
  ASSUME DeliveryInv, NEW o \in Ops, NEW m \in Msgs, Settle(o, m)
  PROVE  Grows /\ Typed' /\ OutcomesFit' /\ RowsAreTrue' /\ Rows!Next
<1>1. PICK i \in DOMAIN mined :
        /\ mined[i].tx = Own(o, m)
        /\ row' = [row EXCEPT ![o][m] =
                     IF mined[i].outcome = "reverted" THEN [@ EXCEPT !.state = "Failed"]
                     ELSE [@ EXCEPT !.state = "Confirmed", !.tx = Own(o, m)]]
  BY DEF Settle
<1>2. /\ row \in [Ops -> [Msgs -> RowData]] /\ row[o][m].state = "Submitted"
      /\ UNCHANGED <<world, nonce, height, mined, signed, msgCache, cli>> /\ SameCommand
  BY DEF Settle, chainVars, DeliveryInv, Typed, SameCommand
<1>3. RowIsTrue(o, m)
  BY DEF DeliveryInv, RowsAreTrue
<1>4. CASE mined[i].outcome = "reverted"
  <2> DEFINE r == [row[o][m] EXCEPT !.state = "Failed"]
  <2>1. /\ r \in RowData /\ r.state = "Failed" /\ r.exec = row[o][m].exec
        /\ r.delivery = row[o][m].delivery /\ r.tx = row[o][m].tx
    BY <1>2 DEF RowData, States
  <2>2. row' = [row EXCEPT ![o][m] = r]
    BY <1>1, <1>2, <1>4
  <2> HIDE DEF r
  <2>3. SaysTheTruth(o, m, r)
    <3>1. Ended(Own(o, m), "reverted")
      BY <1>1, <1>4 DEF Ended
    <3> QED
      BY <1>3, <2>1, <3>1 DEF RowIsTrue, SaysTheTruth
  <2>4. MayReplace(o, m, r)
    BY <1>2, <2>1 DEF MayReplace, Unknown
  <2> QED
    BY <1>2, <2>1, <2>2, <2>3, <2>4, RowWritten
<1>5. CASE mined[i].outcome # "reverted"
  <2> DEFINE r == [row[o][m] EXCEPT !.state = "Confirmed", !.tx = Own(o, m)]
  <2>1. Stands(Own(o, m)) /\ Own(o, m) \in Txs /\ Own(o, m) # NoTx
    BY <1>1, <1>5, NothingIsNoTx DEF Stands, Own, Txs
  <2>2. /\ r \in RowData /\ r.state = "Confirmed" /\ r.exec = row[o][m].exec
        /\ r.delivery = row[o][m].delivery /\ r.tx = Own(o, m)
    <3>1. row[o][m] \in RowData /\ "Confirmed" \in States
      BY <1>2 DEF States
    <3> QED
      BY <2>1, <3>1 DEF RowData
  <2>3. row' = [row EXCEPT ![o][m] = r]
    BY <1>1, <1>2, <1>5
  <2> HIDE DEF r
  <2> QED
    BY <1>2, <1>3, <2>1, <2>2, <2>3, RowWritten DEF RowIsTrue, SaysTheTruth, MayReplace, Unknown
<1> QED
  BY <1>4, <1>5

(* A row that is taken back says less, and no outcome is lost.             *)
LEMMA TakeBackKeeps ==
  ASSUME DeliveryInv, NEW o \in Ops, NEW m \in Msgs, TakeBack(o, m)
  PROVE  Grows /\ Typed' /\ OutcomesFit' /\ RowsAreTrue' /\ Rows!Next
<1>1. PICK r \in TakenBack(row[o][m]) : row' = [row EXCEPT ![o][m] = r]
  BY DEF TakeBack
<1>2. row[o][m] \in RowData /\ cli \in CliData
  BY DEF DeliveryInv, Typed
<1>3. /\ r \in RowData /\ r.state \in {"Submitted", "Pending"}
      /\ r.state = "Submitted" => row[o][m].state \in {"Confirmed", "Failed"}
      /\ r.state = "Pending" => r.exec # Unknown
      /\ r.exec = row[o][m].exec /\ r.delivery = row[o][m].delivery
      /\ r.tx \in {row[o][m].tx, NoTx}
  BY <1>1, <1>2 DEF TakenBack, RowData, States
<1>4. UNCHANGED <<world, nonce, height, mined, signed, msgCache>>
  BY DEF TakeBack, chainVars
<1>5. SameCommand /\ (world.mode = "mock" => m # cli.id \/ o \notin cli'.shown)
  BY <1>2 DEF TakeBack, CliData, SameCommand
<1>6. RowIsTrue(o, m)
  BY DEF DeliveryInv, RowsAreTrue
<1> QED
  BY <1>1, <1>3, <1>4, <1>5, <1>6, RowWritten DEF RowIsTrue, SaysTheTruth, MayReplace, Unknown

LEMMA ReportKeeps ==
  ASSUME DeliveryInv, NEW o \in Ops, NEW i \in DOMAIN mined, Report(o, i)
  PROVE  Grows /\ Typed' /\ OutcomesFit' /\ RowsAreTrue' /\ Rows!Next
<1> DEFINE m == mined[i].tx.msg
           s == IF row[o][m].state = Unknown THEN "Pending" ELSE row[o][m].state
           r == [state |-> s, tx |-> row[o][m].tx, exec |-> mined[i].outcome,
                 delivery |-> mined[i].tx]
<1>1. mined[i] \in Entry /\ mined[i].tx \in Txs /\ m \in Msgs
  <2>1. mined \in Seq(Entry)
    BY DEF DeliveryInv, Typed
  <2>2. mined[i] \in Entry
    BY <2>1
  <2>3. mined[i].tx \in Txs
    BY <2>2 DEF Entry
  <2> QED
    BY <2>2, <2>3, NothingIsNoTx
<1>2. /\ row \in [Ops -> [Msgs -> RowData]] /\ row[o][m].exec = Unknown
      /\ mined[i].outcome \in Seen
      /\ UNCHANGED <<world, nonce, height, mined, signed, msgCache, cli>> /\ SameCommand
  BY DEF Report, chainVars, DeliveryInv, Typed, Seen, SameCommand
<1>3. row' = [row EXCEPT ![o][m] = r]
  BY <1>1, <1>2 DEF Report
<1>4. /\ s \in States /\ s # Unknown
      /\ \A end \in {"Confirmed", "Failed"} : s = end <=> row[o][m].state = end
  BY <1>1, <1>2 DEF RowData, States, Unknown
<1>5. /\ r \in RowData /\ r.state = s /\ r.exec = mined[i].outcome
      /\ r.delivery = mined[i].tx /\ r.delivery.msg = m /\ r.tx = row[o][m].tx
  BY <1>1, <1>2, <1>4 DEF RowData
<1>6. Ended(mined[i].tx, mined[i].outcome) /\ mined[i].outcome # Unknown
  BY <1>2 DEF Ended, Seen, Unknown
<1>7. RowIsTrue(o, m)
  BY <1>1 DEF DeliveryInv, RowsAreTrue
<1>8. /\ row[o][m].tx # NoTx => row[o][m].tx = Own(o, m) /\ Stands(row[o][m].tx)
      /\ s = "Confirmed" => row[o][m].tx # NoTx
      /\ s = "Failed" => Ended(Own(o, m), "reverted")
  BY <1>4, <1>7 DEF RowIsTrue
<1> HIDE DEF r, s, m
<1>9. SaysTheTruth(o, m, r)
  BY <1>5, <1>6, <1>8 DEF SaysTheTruth
<1>10. MayReplace(o, m, r)
  BY <1>2, <1>4, <1>5, <1>6 DEF MayReplace
<1> QED
  BY <1>1, <1>2, <1>3, <1>4, <1>5, <1>9, <1>10, RowWritten

LEMMA ExecuteKeeps ==
  ASSUME DeliveryInv, NEW by \in Ops \cup {External}, NEW m \in Msgs, Execute(by, m)
  PROVE  Grows /\ Typed' /\ OutcomesFit' /\ RowsAreTrue' /\ Rows!Next
<1>1. PICK outcome \in Outcomes(m) :
        mined' = Append(mined, [tx |-> Own(by, m), outcome |-> outcome,
                                block |-> height + 1])
  BY DEF Execute
<1> DEFINE e == [tx |-> Own(by, m), outcome |-> outcome, block |-> height + 1]
<1>2. /\ mined \in Seq(Entry) /\ height \in Nat /\ height' = height + 1
      /\ UNCHANGED <<world, nonce, signed, row, msgCache, cli>>
  BY DEF Execute, operatorVars, DeliveryInv, Typed
<1>3. world.mode \in {"layerzero", "mock", "ccip"}
  BY DeliveryConstants DEF DeliveryInv, Typed
<1>4. /\ outcome \in {"reverted", "verified", "executed", "already"} \cup Seen
      /\ outcome = "verified" => world.mode = "layerzero"
      /\ outcome = "executed" => world.mode = "mock"
      /\ world.mode = "mock" => outcome \in {"reverted", "executed"}
  BY <1>1, <1>3 DEF Outcomes, Seen
<1>5. e \in Entry /\ e.outcome = outcome
  BY <1>2, <1>4 DEF Entry, Txs, Own
<1> HIDE DEF e
<1>6. /\ mined' \in Seq(Entry)
      /\ \A i \in DOMAIN mined : i \in DOMAIN mined' /\ mined'[i] = mined[i]
      /\ \A i \in DOMAIN mined' : i \in DOMAIN mined \/ mined'[i] = e
  <2>1. mined' = Append(mined, e)
    BY <1>1 DEF e
  <2> QED
    BY <1>2, <1>5, <2>1
<1>7. OutcomesFit'
  BY <1>2, <1>4, <1>5, <1>6 DEF DeliveryInv, OutcomesFit
<1>8. Typed'
  BY <1>2, <1>6 DEF DeliveryInv, Typed
<1>9. RowsAreTrue'
  <2>1. /\ \A tx, end : Ended(tx, end) => Ended(tx, end)'
        /\ \A tx : Stands(tx) => Stands(tx)'
    BY <1>6, EndsLast
  <2> QED
    BY <1>2, <2>1 DEF DeliveryInv, RowsAreTrue, RowIsTrue
<1>10. SameCommand
  BY <1>2 DEF DeliveryInv, Typed, SameCommand
<1>11. Rows!Next
  BY <1>2, <1>6, ProceedImplementsRows
<1> QED
  BY <1>2, <1>6, <1>7, <1>8, <1>9, <1>10, <1>11 DEF Grows, Holds

LEMMA ChainStepKeeps ==
  ASSUME DeliveryInv, ChainStep
  PROVE  Grows /\ Typed' /\ OutcomesFit' /\ RowsAreTrue' /\ Rows!Next
BY SignKeeps, SubmitKeeps, SettleKeeps, TakeBackKeeps, ReportKeeps, ExecuteKeeps, MineEmptyKeeps
   DEF ChainStep

(* What a watch gathered, and its verdict, stay true as the chain grows.   *)
LEMMA ChainStepInv ==
  ASSUME DeliveryInv, ChainStep
  PROVE  DeliveryInv'
<1>1. Grows /\ Typed' /\ OutcomesFit' /\ RowsAreTrue'
  BY ChainStepKeeps
<1>2. UNCHANGED <<world, nonce, msgCache>> /\ SameCommand
  BY <1>1 DEF Grows
<1>3. /\ \A tx, outcome : Ended(tx, outcome) => Ended(tx, outcome)'
      /\ \A tx : Stands(tx) => Stands(tx)'
  BY <1>1, EndsLast DEF Grows
<1>4. \A o \in Ops, m \in Msgs : m \in signed[o] /\ m \in Listed(o)' => m \in Listed(o)
  BY <1>1, ListedShrinks DEF DeliveryInv, Grows
<1>5. cli'.shown \subseteq cli.shown /\ cli.shown \subseteq Ops
      /\ \A o \in Ops : signed[o] \subseteq Msgs
  BY <1>2 DEF DeliveryInv, Typed, CliData, SameCommand
<1>6. SendHasMessage' /\ ProgressIsTrue'
  BY <1>2, <1>3 DEF DeliveryInv, SendHasMessage, ProgressIsTrue, Told, SameCommand
<1>7. \A o \in cli'.shown : cli.id \in signed[o] /\ cli.id \in Msgs /\ Holds(o, cli.id)
  BY <1>5 DEF DeliveryInv, RoundIsKept
<1>8. RoundIsKept'
  <2>1. \A o \in cli'.shown : cli'.id \in signed'[o] /\ Holds(o, cli.id)'
    BY <1>1, <1>2, <1>5, <1>7 DEF Grows, SameCommand
  <2>2. \A o \in cli'.shown : Holds(o, cli.id)' => (Holds(o, cli.id))'
    OBVIOUS
  <2>3. ASSUME cli.pc \in {"ask", "receipt"}, cli.id = cli.tx, NEW o \in cli'.shown,
               NEW k \in 1 .. cli.asked, Operators[k] = o, cli.id \in Listed(o)'
        PROVE  Gathered(cli.progress)
    BY <1>4, <1>5, <1>7, <2>3 DEF DeliveryInv, RoundIsKept
  <2>4. Gathered(cli.progress) => Gathered(cli.progress)'
    BY <1>2 DEF Gathered, SameCommand
  <2> QED
    BY <1>2, <1>5, <2>1, <2>3, <2>4 DEF DeliveryInv, RoundIsKept, SameCommand
<1>9. VerdictIsTrue'
  BY <1>1, <1>2 DEF DeliveryInv, VerdictIsTrue, Grows, SameCommand
<1>10. KnownIsTold'
  BY <1>2, <1>4, <1>5, <1>7 DEF DeliveryInv, KnownIsTold, Running, SameCommand
<1> QED
  BY <1>1, <1>6, <1>8, <1>9, <1>10 DEF DeliveryInv


-----------------------------------------------------------------------------
(* The steps of the command.                                               *)

SameChain == UNCHANGED <<world, height, mined, signed, row>>

LEMMA SameChainKeeps ==
  ASSUME DeliveryInv, SameChain
  PROVE  /\ OutcomesFit' /\ RowsAreTrue'
         /\ \A o \in Ops, m \in Msgs : Holds(o, m)' <=> Holds(o, m)
         /\ \A o \in Ops : Listed(o)' = Listed(o)
         /\ \A tx, end : Ended(tx, end)' <=> Ended(tx, end)
         /\ \A tx : Stands(tx)' <=> Stands(tx)
BY DEF SameChain, DeliveryInv, OutcomesFit, RowsAreTrue, RowIsTrue, Holds, Listed,
       Ended, Stands

LEMMA GoingFields ==
  ASSUME Typed, NEW pc \in Steps
  PROVE  /\ Going(pc) \in CliData /\ Going(pc).pc = pc
         /\ Going(pc).id = cli.id /\ Going(pc).tx = cli.tx
         /\ Going(pc).shown = {} /\ Going(pc).progress = NoProgress
<1>1. cli \in CliData /\ 0 \in 0 .. Len(Operators)
  BY IdsAreMsgs DEF Typed
<1> HIDE DEF NoProgress
<1> QED
  BY <1>1, NoProgressFields DEF Going, CliData

LEMMA SearchFields ==
  ASSUME Typed
  PROVE  /\ Search \in CliData /\ Search.pc = "logs"
         /\ Search.id = cli.id /\ Search.tx = cli.tx
         /\ Search.shown = cli.shown /\ Search.progress = NoProgress
<1>1. "logs" \in Steps /\ cli.shown \in SUBSET Ops
  BY DEF Typed, CliData, Steps
<1> HIDE DEF NoProgress, Going
<1> QED
  BY <1>1, GoingFields DEF Search, CliData

LEMMA VerdictFields ==
  ASSUME Typed, NEW pc \in Steps, NEW tx \in Txs \cup {NoTx}
  PROVE  /\ Verdict(pc, tx) \in CliData /\ Verdict(pc, tx).pc = pc
         /\ Verdict(pc, tx).id = cli.id /\ Verdict(pc, tx).tx = cli.tx
         /\ Verdict(pc, tx).shown = {} /\ Verdict(pc, tx).progress = NoProgress
         /\ Verdict(pc, tx).proof = tx
<1> DEFINE going == Going(pc)
           verdict == [going EXCEPT !.proof = tx, !.start = 0]
<1>1. /\ going \in CliData /\ going.pc = pc /\ going.id = cli.id /\ going.tx = cli.tx
      /\ going.shown = {} /\ going.progress = NoProgress
  BY GoingFields
<1>2. Verdict(pc, tx) = verdict
  BY DEF Verdict
<1> HIDE DEF going, NoProgress, NoTx
<1>3. verdict \in CliData
  BY <1>1 DEF CliData
<1>4. /\ verdict.pc = going.pc /\ verdict.id = going.id /\ verdict.tx = going.tx
      /\ verdict.shown = going.shown /\ verdict.progress = going.progress
      /\ verdict.proof = tx
  BY <1>1 DEF CliData
<1> HIDE DEF verdict
<1> QED
  BY <1>1, <1>2, <1>3, <1>4

(* A step to a command that has asked nobody yet, or has its verdict.      *)
LEMMA FreshStep ==
  ASSUME DeliveryInv, SameChain,
         nonce' \in 0 .. Len(Ids), msgCache' \in Msgs \cup {Unknown}, cli' \in CliData,
         cli'.shown = {}, cli'.progress = NoProgress, cli'.pc # "receipt",
         SendHasMessage', VerdictIsTrue'
  PROVE  DeliveryInv'
<1>1. OutcomesFit' /\ RowsAreTrue'
  BY SameChainKeeps
<1>2. Typed'
  BY DEF DeliveryInv, Typed, SameChain
<1>3. ProgressIsTrue'
  BY NoProgressFields DEF ProgressIsTrue, Told, Unknown
<1>4. RoundIsKept' /\ KnownIsTold'
  BY DEF RoundIsKept, KnownIsTold
<1> QED
  BY <1>1, <1>2, <1>3, <1>4 DEF DeliveryInv

LEMMA SendSteps ==
  ASSUME DeliveryInv,
         \/ \E goal \in {"send", "e2e"} : StartSend(goal)
         \/ SendMessage \/ ReadEvent \/ SendFails
  PROVE  DeliveryInv'
<1> USE DEF Running
<1>1. Typed /\ SendHasMessage /\ RoundIsKept
  BY DEF DeliveryInv
<1>2. nonce \in 0 .. Len(Ids) /\ msgCache \in Msgs \cup {Unknown} /\ cli \in CliData
  BY <1>1 DEF Typed
<1>3. /\ Len(Ids) \in Nat
      /\ \A m \in Msgs : SourceBlock[m] \in Nat
  BY IdsAreMsgs, DeliveryConstants
<1>4. ASSUME NEW goal \in {"send", "e2e"}, StartSend(goal)
      PROVE  DeliveryInv'
  <2>1. cli' = [Idle EXCEPT !.pc = "send", !.goal = goal]
    BY <1>4 DEF StartSend
  <2>2. /\ cli' \in CliData /\ cli'.pc = "send" /\ cli'.shown = {}
        /\ cli'.progress = NoProgress
    <3> HIDE DEF Idle, NoProgress
    <3> QED
      BY <2>1, IdleFields DEF CliData, Steps
  <2>3. SameChain /\ nonce' = nonce /\ msgCache' = msgCache /\ nonce < Len(Ids)
    BY <1>4 DEF StartSend, SameChain, chainVars, operatorVars
  <2>4. SendHasMessage' /\ VerdictIsTrue'
    BY <2>2, <2>3 DEF SendHasMessage, VerdictIsTrue
  <2> QED
    BY <1>2, <2>2, <2>3, <2>4, FreshStep
<1>5. CASE SendMessage
  <2>1. cli' = [cli EXCEPT !.pc = "event"] /\ cli.pc = "send" /\ nonce' = nonce + 1
    BY <1>5 DEF SendMessage
  <2>2. /\ cli' \in CliData /\ cli'.pc = "event" /\ cli'.shown = {}
        /\ cli'.progress = NoProgress
    BY <1>1, <1>2, <2>1 DEF CliData, Steps, RoundIsKept
  <2>3. SameChain /\ msgCache' = msgCache
    BY <1>5 DEF SendMessage, SameChain, chainVars, operatorVars
  <2>4. nonce' \in 0 .. Len(Ids) /\ nonce' > 0
    BY <1>1, <1>2, <1>3, <2>1 DEF SendHasMessage
  <2>5. SendHasMessage' /\ VerdictIsTrue'
    BY <2>2, <2>4 DEF SendHasMessage, VerdictIsTrue
  <2> QED
    BY <1>2, <2>2, <2>3, <2>4, <2>5, FreshStep
<1>6. CASE ReadEvent
  <2> DEFINE m == Ids[nonce]
             watch == [Idle EXCEPT !.pc = "ready", !.id = m, !.tx = m,
                                   !.start = SourceBlock[m]]
  <2>1. cli' = (IF cli.goal = "send" THEN Idle ELSE watch) /\ msgCache' = m
    BY <1>6 DEF ReadEvent, SaveCache
  <2>2. m \in Msgs
    BY <1>1, <1>2, <1>6, IdsAreMsgs DEF ReadEvent, SendHasMessage
  <2>3. SourceBlock[m] \in Nat
    BY <1>3, <2>2
  <2> HIDE DEF m
  <2>4. /\ watch \in CliData /\ watch.pc = "ready" /\ watch.shown = {}
        /\ watch.progress = NoProgress
    <3> HIDE DEF Idle, NoProgress
    <3> QED
      BY <2>2, <2>3, IdleFields DEF CliData, Steps
  <2> HIDE DEF watch
  <2>5. /\ cli' \in CliData /\ cli'.pc \in {"idle", "ready"} /\ cli'.shown = {}
        /\ cli'.progress = NoProgress
    <3> HIDE DEF Idle, NoProgress
    <3> QED
      BY <2>1, <2>4, IdleFields
  <2>6. SameChain /\ nonce' = nonce
    BY <1>6 DEF ReadEvent, SameChain, chainVars, operatorVars
  <2>7. SendHasMessage' /\ VerdictIsTrue'
    BY <2>5 DEF SendHasMessage, VerdictIsTrue
  <2>8. msgCache' \in Msgs \cup {Unknown} /\ nonce' \in 0 .. Len(Ids)
    BY <1>2, <2>1, <2>2, <2>6
  <2> HIDE DEF NoProgress
  <2>9. cli'.pc # "receipt"
    BY <2>5
  <2> QED
    BY <2>5, <2>6, <2>7, <2>8, <2>9, FreshStep
<1>7. CASE SendFails
  <2>1. cli' = Idle /\ SameChain /\ nonce' = nonce /\ msgCache' = msgCache
    BY <1>7 DEF SendFails, SameChain, chainVars, operatorVars
  <2>2. /\ cli' \in CliData /\ cli'.pc = "idle" /\ cli'.shown = {}
        /\ cli'.progress = NoProgress
    BY <2>1, IdleFields
  <2>3. SendHasMessage' /\ VerdictIsTrue'
    BY <2>2 DEF SendHasMessage, VerdictIsTrue
  <2> HIDE DEF Idle, NoProgress
  <2> QED
    BY <1>2, <2>1, <2>2, <2>3, FreshStep
<1> QED
  BY <1>4, <1>5, <1>6, <1>7

(* The steps that begin a watch, or end it without a verdict on what       *)
(* happened.                                                               *)
LEMMA WatchSteps ==
  ASSUME DeliveryInv,
         \/ \E id, tx \in {Ids[i] : i \in 1 .. nonce} \cup {Unknown} : StartWatch(id, tx)
         \/ Ready \/ NotReady \/ SearchFails \/ TimeOut \/ Exit
  PROVE  DeliveryInv'
<1> USE DEF Running
<1>1. Typed /\ RoundIsKept
  BY DEF DeliveryInv
<1>2. /\ nonce \in 0 .. Len(Ids) /\ msgCache \in Msgs \cup {Unknown} /\ cli \in CliData
      /\ height \in Nat /\ Len(Ids) \in Nat
  BY <1>1, IdsAreMsgs DEF Typed
<1>3. SameChain /\ nonce' = nonce /\ msgCache' = msgCache
  BY DEF StartWatch, Ready, NotReady, SearchFails, TimeOut, Exit, SameChain,
         chainVars, operatorVars
<1>4. SUFFICES /\ cli' \in CliData
               /\ cli'.pc \in {"idle", "ready", "ask", "timedout"}
               /\ cli'.shown = {} /\ cli'.progress = NoProgress
  <2>1. SendHasMessage' /\ VerdictIsTrue' /\ cli'.pc # "receipt"
    BY <1>4 DEF SendHasMessage, VerdictIsTrue
  <2> HIDE DEF NoProgress
  <2> QED
    BY <1>2, <1>3, <1>4, <2>1, FreshStep
<1>5. ASSUME NEW id \in {Ids[i] : i \in 1 .. nonce} \cup {Unknown},
             NEW tx \in {Ids[i] : i \in 1 .. nonce} \cup {Unknown}, StartWatch(id, tx)
      PROVE  cli' \in CliData /\ cli'.pc = "ready" /\ cli'.shown = {}
             /\ cli'.progress = NoProgress
  <2> DEFINE first  == IF id = Unknown THEN msgCache ELSE id
             second == IF tx = Unknown THEN msgCache ELSE tx
             from   == IF msgCache = Unknown THEN height
                       ELSE Least(SourceBlock[msgCache], height)
  <2>1. cli' = [Idle EXCEPT !.pc = "ready", !.id = first, !.tx = second, !.start = from]
    BY <1>5 DEF StartWatch
  <2>2. id \in Msgs \cup {Unknown} /\ tx \in Msgs \cup {Unknown}
    BY <1>2, IdsAreMsgs
  <2>3. first \in Msgs \cup {Unknown} /\ second \in Msgs \cup {Unknown}
    BY <1>2, <2>2
  <2>4. from \in Nat
    BY <1>2, DeliveryConstants DEF Least
  <2> HIDE DEF first, second, from, Idle, NoProgress
  <2> QED
    BY <2>1, <2>3, <2>4, IdleFields DEF CliData, Steps
<1>6. CASE Ready
  BY <1>1, <1>2, <1>6 DEF Ready, RoundIsKept, CliData, Steps
<1>7. CASE NotReady \/ SearchFails \/ Exit
  BY <1>7, IdleFields DEF NotReady, SearchFails, Exit
<1>8. CASE TimeOut
  <2>1. "timedout" \in Steps /\ NoTx \in Txs \cup {NoTx}
    BY DEF Steps
  <2>2. cli' = Verdict("timedout", NoTx)
    BY <1>8 DEF TimeOut
  <2> HIDE DEF NoTx, NoProgress, Verdict
  <2> QED
    BY <1>1, <2>1, <2>2, VerdictFields
<1> QED
  BY <1>5, <1>6, <1>7, <1>8


(* prefer_submission keeps the first outcome with its transaction, and the *)
(* transaction of the submission that went furthest.                       *)
LEMMA PreferFields ==
  ASSUME NEW p \in ProgressData, NEW o \in Ops, NEW m \in Msgs, row[o][m] \in RowData
  PROVE  /\ Prefer(p, o, m) \in ProgressData
         /\ Prefer(p, o, m).exec = IF p.exec = Unknown THEN row[o][m].exec ELSE p.exec
         /\ Prefer(p, o, m).delivery =
              IF p.delivery = NoTx /\ row[o][m].exec # Unknown THEN row[o][m].delivery
              ELSE p.delivery
         /\ Prefer(p, o, m).tx \in {p.tx, row[o][m].tx}
         /\ Prefer(p, o, m).state = "Confirmed" =>
              \/ p.state = "Confirmed" /\ Prefer(p, o, m).tx = p.tx
              \/ row[o][m].state = "Confirmed" /\ Prefer(p, o, m).tx = row[o][m].tx
         /\ "Confirmed" \in {p.state, row[o][m].state} =>
              Prefer(p, o, m).state = "Confirmed"
<1> DEFINE r == row[o][m]
           higher == Rank(r.state) > Rank(p.state)
           best == IF higher THEN [p EXCEPT !.state = r.state, !.tx = r.tx] ELSE p
           known == [best EXCEPT !.exec = IF @ = Unknown THEN r.exec ELSE @,
                                 !.delivery = IF @ = NoTx THEN r.delivery ELSE @]
<1>1. Prefer(p, o, m) = IF r.exec = Unknown THEN best ELSE known
  BY DEF Prefer
<1>2. r \in RowData /\ r.state \in States /\ p.state \in States
  BY DEF RowData, ProgressData
<1>4. "Confirmed" \in {p.state, r.state} =>
        \/ higher /\ r.state = "Confirmed"
        \/ ~higher /\ p.state = "Confirmed"
  BY <1>2 DEF Rank, States, Unknown
<1> HIDE DEF higher, r, NoTx
<1>5. /\ best \in ProgressData /\ best.exec = p.exec /\ best.delivery = p.delivery
      /\ best.state = (IF higher THEN r.state ELSE p.state)
      /\ best.tx = (IF higher THEN r.tx ELSE p.tx)
  BY <1>2 DEF ProgressData, RowData
<1> HIDE DEF best
<1>6. /\ known \in ProgressData /\ known.state = best.state /\ known.tx = best.tx
      /\ known.exec = (IF best.exec = Unknown THEN r.exec ELSE best.exec)
      /\ known.delivery = (IF best.delivery = NoTx THEN r.delivery ELSE best.delivery)
  BY <1>2, <1>5 DEF ProgressData, RowData
<1> HIDE DEF known
<1>7. Prefer(p, o, m).state = best.state /\ Prefer(p, o, m).tx = best.tx
  BY <1>1, <1>6
<1>8. /\ Prefer(p, o, m) \in ProgressData
      /\ Prefer(p, o, m).exec = IF p.exec = Unknown THEN r.exec ELSE p.exec
      /\ Prefer(p, o, m).delivery =
           IF p.delivery = NoTx /\ r.exec # Unknown THEN r.delivery ELSE p.delivery
  BY <1>1, <1>5, <1>6
<1>9. Prefer(p, o, m).tx \in {p.tx, r.tx}
  BY <1>5, <1>7
<1>10. Prefer(p, o, m).state = "Confirmed" =>
         \/ p.state = "Confirmed" /\ Prefer(p, o, m).tx = p.tx
         \/ r.state = "Confirmed" /\ Prefer(p, o, m).tx = r.tx
  BY <1>5, <1>7
<1>11. "Confirmed" \in {p.state, r.state} => Prefer(p, o, m).state = "Confirmed"
  BY <1>4, <1>5, <1>7
<1> QED
  BY <1>8, <1>9, <1>10, <1>11 DEF r

LEMMA EndedIsTx ==
  ASSUME Typed
  PROVE  /\ \A i \in DOMAIN mined : mined[i] \in Entry /\ mined[i].tx \in Txs
         /\ \A tx, end : Ended(tx, end) => tx \in Txs
         /\ \A tx : Stands(tx) => tx \in Txs
<1>1. mined \in Seq(Entry)
  BY DEF Typed
<1>2. \A i \in DOMAIN mined : mined[i] \in Entry
  BY <1>1
<1>3. \A i \in DOMAIN mined : mined[i].tx \in Txs
  BY <1>2 DEF Entry
<1> QED
  BY <1>2, <1>3 DEF Ended, Stands

(* The next operator was asked, whatever came of it.                       *)
LEMMA AskedStep ==
  ASSUME DeliveryInv, SameChain, UNCHANGED <<nonce, msgCache>>,
         cli.pc = "ask", cli.asked < Len(Operators),
         NEW shown \in SUBSET Showing, NEW p \in ProgressData, Told(p),
         cli' = [cli EXCEPT !.asked = @ + 1, !.shown = shown, !.progress = p],
         Gathered(cli.progress) => Gathered(p),
         Operators[cli.asked + 1] \in shown /\ cli.id = cli.tx
           /\ cli.id \in Listed(Operators[cli.asked + 1]) => Gathered(p)
  PROVE  DeliveryInv'
<1>1. /\ Typed /\ RoundIsKept /\ cli \in CliData /\ cli.asked \in 0 .. Len(Operators)
      /\ cli.shown \subseteq Ops /\ Len(Operators) \in Nat
      /\ \A o \in Ops : signed[o] \subseteq Msgs
  BY IdsAreMsgs DEF DeliveryInv, Typed, CliData
<1>2. shown \subseteq Ops
  BY <1>1 DEF Showing
<1> DEFINE next == cli.asked + 1
<1>a. next \in 0 .. Len(Operators) /\ cli' = [cli EXCEPT !.asked = next, !.shown = shown,
                                                         !.progress = p]
  BY <1>1
<1>3. /\ cli' \in CliData /\ cli'.pc = "ask" /\ cli'.id = cli.id /\ cli'.tx = cli.tx
      /\ cli'.asked = cli.asked + 1 /\ cli'.shown = shown /\ cli'.progress = p
  <2> HIDE DEF next
  <2>1. /\ cli' \in CliData /\ cli'.pc = "ask" /\ cli'.id = cli.id /\ cli'.tx = cli.tx
        /\ cli'.asked = next /\ cli'.shown = shown /\ cli'.progress = p
    BY <1>1, <1>a, <1>2 DEF CliData
  <2> QED
    BY <2>1 DEF next
<1>4. OutcomesFit' /\ RowsAreTrue'
  BY SameChainKeeps
<1>5. Typed' /\ SendHasMessage'
  BY <1>1, <1>3 DEF Typed, SendHasMessage, SameChain
<1>6. ProgressIsTrue'
  BY <1>3 DEF ProgressIsTrue, Told, Ended, Stands, SameChain
<1>7. VerdictIsTrue' /\ KnownIsTold'
  BY <1>3 DEF VerdictIsTrue, KnownIsTold, Running
<1>8. \A o \in shown : o \in Ops /\ cli.id \in signed[o] /\ Holds(o, cli.id)
  BY <1>1, <1>2 DEF Showing, Shows, Holds, Listed, RoundIsKept
<1>9. ASSUME NEW o \in shown, NEW k \in 1 .. (cli.asked + 1), Operators[k] = o,
             cli.id = cli.tx, cli.id \in Listed(o)
      PROVE  Gathered(p)
  <2>1. CASE k = cli.asked + 1
    BY <1>9, <2>1
  <2>2. CASE k # cli.asked + 1
    <3>1. k \in 1 .. cli.asked /\ cli.asked # 0
      BY <1>1, <2>2
    <3>2. o \in cli.shown
      BY <3>1 DEF Showing
    <3>3. Gathered(cli.progress)
      BY <1>1, <1>9, <3>1, <3>2 DEF RoundIsKept
    <3> QED
      BY <3>3
  <2> QED
    BY <2>1, <2>2
<1>10. RoundIsKept'
  <2>1. \A o \in shown : (cli.id \in signed[o] /\ Holds(o, cli.id))'
    BY <1>3, <1>8 DEF Holds, SameChain
  <2>2. \A o \in shown : Listed(o)' = Listed(o)
    BY <1>2, SameChainKeeps
  <2>3. Gathered(p) => Gathered(cli.progress)'
    BY <1>3 DEF Gathered, SameChain
  <2>4. ASSUME cli.id = cli.tx, NEW o \in shown, NEW k \in 1 .. (cli.asked + 1),
               Operators[k] = o, cli.id \in Listed(o)'
        PROVE  Gathered(cli.progress)'
    BY <1>9, <2>2, <2>3, <2>4
  <2> QED
    BY <1>3, <2>1, <2>4 DEF RoundIsKept
<1> QED
  BY <1>4, <1>5, <1>6, <1>7, <1>10 DEF DeliveryInv

LEMMA AskOperatorKeeps ==
  ASSUME DeliveryInv, AskOperator
  PROVE  DeliveryInv'
<1> DEFINE o == Operators[cli.asked + 1]
           answers == IF Entries(o) = {} THEN {cli.progress}
                      ELSE {Prefer(cli.progress, o, m) : m \in Entries(o)}
<1>1. /\ cli.pc = "ask" /\ cli.asked < Len(Operators)
      /\ SameChain /\ UNCHANGED <<nonce, msgCache>>
  BY DEF AskOperator, Running, SameChain, chainVars, operatorVars
<1>2. PICK p \in answers :
        cli' = [cli EXCEPT !.asked = @ + 1, !.shown = Showing, !.progress = p]
  BY DEF AskOperator
<1>3. /\ cli \in CliData /\ cli.asked \in 0 .. Len(Operators)
      /\ cli.progress \in ProgressData /\ Told(cli.progress)
      /\ row \in [Ops -> [Msgs -> RowData]]
  BY DEF DeliveryInv, Typed, CliData, ProgressIsTrue
<1>4. o \in Ops
  BY <1>1, <1>3, IdsAreMsgs
<1>5. Entries(o) \subseteq Msgs /\ Entries(o) \subseteq {cli.id, cli.tx}
  BY <1>4 DEF Entries, Listed, DeliveryInv, Typed
<1>6. CASE Entries(o) = {}
  <2>1. p = cli.progress
    BY <1>6
  <2>2. cli.id = cli.tx => cli.id \notin Listed(o)
    <3> SUFFICES ASSUME cli.id = cli.tx, cli.id \in Listed(o)
                 PROVE  FALSE
      OBVIOUS
    <3>1. cli.id \in Msgs
      BY <1>4 DEF Listed, DeliveryInv, Typed
    <3>2. cli.id \in Entries(o)
      BY <3>1, PrecedesIsStrict DEF Entries
    <3> QED
      BY <1>6, <3>2
  <2> HIDE DEF o, answers
  <2> QED
    BY <1>1, <1>2, <1>3, <2>1, <2>2, AskedStep DEF o
<1>7. CASE Entries(o) # {}
  <2>1. PICK m \in Entries(o) : p = Prefer(cli.progress, o, m)
    BY <1>7
  <2>2. m \in Msgs /\ m \in {cli.id, cli.tx} /\ row[o][m] \in RowData
    BY <1>3, <1>4, <1>5
  <2>3. RowIsTrue(o, m)
    BY <1>4, <2>2 DEF DeliveryInv, RowsAreTrue
  <2> DEFINE q == cli.progress
             r == row[o][m]
  <2>4. /\ p \in ProgressData
        /\ p.exec = (IF q.exec = Unknown THEN r.exec ELSE q.exec)
        /\ p.delivery = (IF q.delivery = NoTx /\ r.exec # Unknown THEN r.delivery
                         ELSE q.delivery)
        /\ p.tx \in {q.tx, r.tx}
        /\ p.state = "Confirmed" => \/ q.state = "Confirmed" /\ p.tx = q.tx
                                    \/ r.state = "Confirmed" /\ p.tx = r.tx
        /\ "Confirmed" \in {q.state, r.state} => p.state = "Confirmed"
    BY <1>3, <1>4, <2>1, <2>2, PreferFields
  <2> HIDE DEF q, r
  <2>5. /\ q.exec = Unknown => q.delivery = NoTx
        /\ q.exec # Unknown => Ended(q.delivery, q.exec) /\ q.delivery # NoTx
                               /\ q.delivery.msg \in {cli.id, cli.tx}
        /\ q.tx # NoTx => q.tx.msg \in {cli.id, cli.tx}
        /\ q.state = "Confirmed" => Stands(q.tx)
    BY <1>3, EndedIsTx, NothingIsNoTx DEF Told, DeliveryInv, q
  <2>6. /\ r.exec = Unknown => r.delivery = NoTx
        /\ r.exec # Unknown => Ended(r.delivery, r.exec) /\ r.delivery.msg = m
        /\ r.tx # NoTx => r.tx.msg = m /\ Stands(r.tx)
        /\ r.state = "Confirmed" => r.tx # NoTx
    BY <2>3 DEF RowIsTrue, Own, r
  <2>7. Told(p)
    <3>1. /\ p.exec = Unknown => p.delivery = NoTx
          /\ p.exec # Unknown =>
               Ended(p.delivery, p.exec) /\ p.delivery.msg \in {cli.id, cli.tx}
      <4>1. CASE q.exec # Unknown
        BY <2>4, <2>5, <4>1
      <4>2. CASE q.exec = Unknown
        BY <2>2, <2>4, <2>5, <2>6, <4>2
      <4> QED
        BY <4>1, <4>2
    <3>2. p.tx # NoTx => p.tx.msg \in {cli.id, cli.tx}
      BY <2>2, <2>4, <2>5, <2>6
    <3>3. p.state = "Confirmed" => Stands(p.tx)
      BY <2>4, <2>5, <2>6
    <3> QED
      BY <3>1, <3>2, <3>3 DEF Told
  <2>8. Gathered(q) => Gathered(p)
    BY <2>4 DEF Gathered
  <2>9. o \in Showing /\ cli.id = cli.tx /\ cli.id \in Listed(o) => Gathered(p)
    <3> SUFFICES ASSUME o \in Showing, cli.id = cli.tx
                 PROVE  Gathered(p)
      OBVIOUS
    <3>1. Holds(o, cli.id)
      BY DEF Showing, Shows, Holds, DeliveryInv, RoundIsKept
    <3>2. m = cli.id
      BY <2>2
    <3>3. Holds(o, m)
      BY <3>1, <3>2
    <3> QED
      BY <2>4, <3>3 DEF Holds, Gathered, r
  <2> HIDE DEF o, answers
  <2> QED
    BY <1>1, <1>2, <2>4, <2>7, <2>8, <2>9, AskedStep DEF o, q
<1> QED
  BY <1>6, <1>7

LEMMA AskFailsKeeps ==
  ASSUME DeliveryInv, AskFails
  PROVE  DeliveryInv'
<1> DEFINE o == Operators[cli.asked + 1]
           p == cli.progress
<1>1. /\ cli.pc = "ask" /\ cli.asked < Len(Operators)
      /\ SameChain /\ UNCHANGED <<nonce, msgCache>>
      /\ cli' = [cli EXCEPT !.asked = @ + 1, !.shown = Showing \ {o}]
  BY DEF AskFails, Running, SameChain, chainVars, operatorVars
<1>2. cli \in CliData /\ p \in ProgressData /\ Told(p)
  BY DEF DeliveryInv, Typed, CliData, ProgressIsTrue
<1>3. cli' = [cli EXCEPT !.asked = @ + 1, !.shown = Showing \ {o}, !.progress = p]
  BY <1>1, <1>2 DEF CliData
<1>4. Showing \ {o} \in SUBSET Showing /\ o \notin Showing \ {o}
  OBVIOUS
<1> QED
  BY <1>1, <1>2, <1>3, <1>4, AskedStep


(* The round found no outcome, and so none that an operator could show     *)
(* when it began and still lists.                                          *)
LEMMA SearchStep ==
  ASSUME DeliveryInv, SameChain, UNCHANGED <<nonce, msgCache>>, cli' = Search,
         cli.id = cli.tx => \A o \in cli.shown : cli.id \notin Listed(o)
  PROVE  DeliveryInv'
<1>1. /\ cli' \in CliData /\ cli'.pc = "logs" /\ cli'.id = cli.id /\ cli'.tx = cli.tx
      /\ cli'.shown = cli.shown /\ cli'.progress = NoProgress
  <2> HIDE DEF Search, NoProgress
  <2> QED
    BY SearchFields DEF DeliveryInv
<1>2. cli.shown \subseteq Ops
  BY DEF DeliveryInv, Typed, CliData
<1>3. OutcomesFit' /\ RowsAreTrue'
  BY SameChainKeeps
<1>4. Typed' /\ SendHasMessage' /\ VerdictIsTrue'
  BY <1>1 DEF DeliveryInv, Typed, SendHasMessage, SameChain, VerdictIsTrue
<1>5. ProgressIsTrue'
  BY <1>1, NoProgressFields DEF ProgressIsTrue, Told, Unknown
<1>6. KnownIsTold'
  <2>1. \A o \in Ops : Listed(o)' = Listed(o)
    BY SameChainKeeps
  <2> QED
    BY <1>1, <1>2, <2>1 DEF KnownIsTold
<1>7. RoundIsKept'
  <2>1. \A o \in cli.shown : (cli.id \in signed[o] /\ Holds(o, cli.id))'
    BY <1>1 DEF DeliveryInv, RoundIsKept, Holds, SameChain
  <2> QED
    BY <1>1, <2>1 DEF RoundIsKept
<1> QED
  BY <1>3, <1>4, <1>5, <1>6, <1>7 DEF DeliveryInv

(* A watch ends with the verdict that a delivery happened.                 *)
LEMMA VerdictStep ==
  ASSUME DeliveryInv, SameChain, UNCHANGED <<nonce, msgCache>>,
         NEW pc \in {"verified", "failed"}, NEW tx \in Txs, cli' = Verdict(pc, tx),
         world.mode # "layerzero" /\ cli.id = cli.tx =>
           \/ /\ pc = "verified" /\ tx.msg = cli.id
              /\ Ended(tx, "executed") \/ Ended(tx, "Success")
           \/ pc = "failed" /\ Ended(tx, "Failure")
  PROVE  DeliveryInv'
<1>1. pc \in Steps /\ tx \in Txs \cup {NoTx} /\ Typed
  BY DEF Steps, DeliveryInv
<1> HIDE DEF NoProgress, Verdict, NoTx
<1>2. /\ cli' \in CliData /\ cli'.pc = pc /\ cli'.id = cli.id /\ cli'.tx = cli.tx
      /\ cli'.shown = {} /\ cli'.progress = NoProgress /\ cli'.proof = tx
  BY <1>1, VerdictFields
<1>3. SendHasMessage'
  BY <1>2 DEF SendHasMessage
<1>4. VerdictIsTrue'
  <2> SUFFICES ASSUME world.mode # "layerzero", cli.id = cli.tx
               PROVE  /\ pc = "verified" =>
                           \E i \in DOMAIN mined : /\ mined[i].tx = tx
                                                   /\ tx.msg = cli.id
                                                   /\ mined[i].outcome \in {"executed", "Success"}
                      /\ pc = "failed" =>
                           \E i \in DOMAIN mined : mined[i].tx = tx
                                                   /\ mined[i].outcome = "Failure"
    BY <1>2 DEF VerdictIsTrue, SameChain
  <2> QED
    BY DEF Ended
<1>5. nonce' \in 0 .. Len(Ids) /\ msgCache' \in Msgs \cup {Unknown} /\ cli'.pc # "receipt"
  BY <1>1, <1>2 DEF Typed
<1> QED
  BY <1>2, <1>3, <1>4, <1>5, FreshStep

LEMMA ConcludeKeeps ==
  ASSUME DeliveryInv, Conclude
  PROVE  DeliveryInv'
<1> DEFINE p == cli.progress
<1>1. /\ cli.pc = "ask" /\ cli.asked = Len(Operators)
      /\ SameChain /\ UNCHANGED <<nonce, msgCache>>
  BY DEF Conclude, Running, SameChain, chainVars, operatorVars
<1>2. /\ cli \in CliData /\ p \in ProgressData /\ Told(p) /\ Typed /\ RoundIsKept
      /\ p.exec \in {Unknown} \cup Seen /\ Len(Operators) \in Nat /\ cli.shown \subseteq Ops
  BY IdsAreMsgs DEF DeliveryInv, Typed, CliData, ProgressData, ProgressIsTrue
<1>3. /\ p.exec = "Failure" /\ cli' = Verdict("failed", p.delivery)
      \/ /\ p.exec = "Success" /\ cli' = Verdict("verified", p.delivery)
      \/ /\ p.exec = Unknown /\ world.mode # "layerzero" /\ p.tx # NoTx
         /\ cli' = [cli EXCEPT !.pc = "receipt"]
      \/ /\ p.exec = Unknown /\ (world.mode = "layerzero" \/ p.tx = NoTx) /\ cli' = Search
  <2> HIDE DEF Search, Verdict
  <2>1. CASE p.exec = "Failure"
    BY <2>1 DEF Conclude
  <2>2. CASE p.exec = "Success"
    BY <2>2 DEF Conclude
  <2>3. CASE p.exec = Unknown /\ world.mode # "layerzero" /\ p.tx # NoTx
    BY <2>3 DEF Conclude, Unknown
  <2>4. CASE p.exec = Unknown /\ (world.mode = "layerzero" \/ p.tx = NoTx)
    BY <2>4 DEF Conclude, Unknown
  <2> QED
    BY <1>2, <2>1, <2>2, <2>3, <2>4 DEF Seen
<1>4. p.exec # Unknown => Ended(p.delivery, p.exec) /\ p.delivery.msg \in {cli.id, cli.tx}
                          /\ p.delivery \in Txs
  BY <1>2, EndedIsTx DEF Told
<1>5. cli.id = cli.tx =>
        \A o \in cli.shown : cli.id \in Listed(o) => Gathered(p)
  <2> SUFFICES ASSUME cli.id = cli.tx, NEW o \in cli.shown, cli.id \in Listed(o)
               PROVE  Gathered(p)
    OBVIOUS
  <2>1. o \in Ops
    BY <1>2
  <2>2. PICK k \in 1 .. Len(Operators) : Operators[k] = o
    BY <2>1, DeliveryConstants DEF Ops, ToSet
  <2> QED
    BY <1>1, <1>2, <2>2 DEF RoundIsKept
<1> HIDE DEF p
<1>6. CASE p.exec = "Failure" /\ cli' = Verdict("failed", p.delivery)
  <2>1. Ended(p.delivery, "Failure") /\ p.delivery \in Txs
    BY <1>4, <1>6 DEF Unknown
  <2> QED
    BY <1>1, <1>6, <2>1, VerdictStep
<1>7. CASE p.exec = "Success" /\ cli' = Verdict("verified", p.delivery)
  <2>1. /\ Ended(p.delivery, "Success") /\ p.delivery \in Txs
        /\ p.delivery.msg \in {cli.id, cli.tx}
    BY <1>4, <1>7 DEF Unknown
  <2> QED
    BY <1>1, <1>7, <2>1, VerdictStep
<1>8. CASE p.exec = Unknown /\ cli' = [cli EXCEPT !.pc = "receipt"]
  <2>1. /\ cli' \in CliData /\ cli'.pc = "receipt" /\ cli'.id = cli.id /\ cli'.tx = cli.tx
        /\ cli'.asked = cli.asked /\ cli'.shown = cli.shown /\ cli'.progress = p
    BY <1>2, <1>8 DEF CliData, Steps, p
  <2>2. OutcomesFit' /\ RowsAreTrue'
    BY <1>1, SameChainKeeps
  <2>3. Typed' /\ SendHasMessage' /\ VerdictIsTrue' /\ KnownIsTold'
    BY <1>1, <1>2, <2>1 DEF Typed, SendHasMessage, SameChain, VerdictIsTrue, KnownIsTold,
                            Running
  <2>4. ProgressIsTrue'
    BY <1>1, <1>2, <1>8, <2>1 DEF ProgressIsTrue, Told, Ended, Stands, SameChain, p
  <2>5. RoundIsKept'
    <3>1. \A o \in cli.shown : (cli.id \in signed[o] /\ Holds(o, cli.id))'
      BY <1>1, <1>2, <2>1 DEF RoundIsKept, Holds, SameChain
    <3>2. \A o \in cli.shown : Listed(o)' = Listed(o)
      BY <1>1, <1>2, SameChainKeeps
    <3>3. Gathered(p) => Gathered(cli.progress)'
      BY <1>1, <2>1 DEF Gathered, SameChain
    <3>4. cli.id = cli.tx =>
            \A o \in cli.shown : (cli.id \in Listed(o))' => Gathered(cli.progress)'
      BY <1>5, <2>1, <3>2, <3>3
    <3> QED
      BY <1>1, <2>1, <3>1, <3>4 DEF RoundIsKept
  <2> QED
    BY <2>2, <2>3, <2>4, <2>5 DEF DeliveryInv
<1>9. CASE /\ p.exec = Unknown /\ cli' = Search
           /\ world.mode = "layerzero" \/ p.tx = NoTx
  <2>1. ~Gathered(p)
    BY <1>2, <1>9, EndedIsTx, NothingIsNoTx DEF Gathered, Told, p
  <2> HIDE DEF Search
  <2> QED
    BY <1>1, <1>5, <1>9, <2>1, SearchStep
<1> QED
  <2> HIDE DEF Search, Verdict
  <2> QED
    BY <1>3, <1>6, <1>7, <1>8, <1>9 DEF p

LEMMA ReadReceiptKeeps ==
  ASSUME DeliveryInv, ReadReceipt
  PROVE  DeliveryInv'
<1> DEFINE p == cli.progress
<1>1. cli.pc = "receipt" /\ SameChain /\ UNCHANGED <<nonce, msgCache>>
  BY DEF ReadReceipt, Running, SameChain, chainVars, operatorVars
<1>2. /\ p.exec = Unknown /\ Told(p) /\ Typed /\ RoundIsKept /\ OutcomesFit
      /\ cli.shown \subseteq Ops /\ cli.asked = Len(Operators)
  BY <1>1 DEF DeliveryInv, Typed, CliData, ProgressIsTrue, RoundIsKept
<1>3. CASE \E i \in DOMAIN mined : mined[i].tx = p.tx /\ Matches(mined[i])
  <2>1. PICK i \in DOMAIN mined : mined[i].tx = p.tx /\ Matches(mined[i])
    BY <1>3
  <2>2. p.tx \in Txs
    BY <1>2, <2>1, EndedIsTx
  <2>3. world.mode # "layerzero" => p.tx.msg = cli.id /\ Ended(p.tx, "executed")
    BY <1>2, <2>1 DEF Matches, OutcomesFit, Ended
  <2>4. cli' = Verdict("verified", p.tx)
    BY <1>3 DEF ReadReceipt
  <2> HIDE DEF p, Verdict
  <2> QED
    BY <1>1, <2>2, <2>3, <2>4, VerdictStep
<1>4. CASE ~\E i \in DOMAIN mined : mined[i].tx = p.tx /\ Matches(mined[i])
  <2>1. cli' = Search
    BY <1>4 DEF ReadReceipt
  <2>2. cli.id = cli.tx => ~Gathered(p)
    <3> SUFFICES ASSUME cli.id = cli.tx, Gathered(p)
                 PROVE  FALSE
      OBVIOUS
    <3>1. world.mode = "mock" /\ Stands(p.tx)
      BY <1>2 DEF Gathered, Told
    <3>2. PICK i \in DOMAIN mined : mined[i].tx = p.tx /\ mined[i].outcome = "executed"
      BY <1>2, <3>1 DEF Stands, OutcomesFit
    <3>3. p.tx # NoTx
      BY <1>2, <3>1, EndedIsTx, NothingIsNoTx
    <3>4. p.tx.msg = cli.id
      BY <1>2, <3>3 DEF Told
    <3> QED
      BY <1>4, <3>2, <3>4 DEF Matches
  <2>3. cli.id = cli.tx => \A o \in cli.shown : cli.id \notin Listed(o)
    <3> SUFFICES ASSUME cli.id = cli.tx, NEW o \in cli.shown, cli.id \in Listed(o)
                 PROVE  FALSE
      OBVIOUS
    <3>1. PICK k \in 1 .. Len(Operators) : Operators[k] = o
      BY <1>2, DeliveryConstants DEF Ops, ToSet
    <3> QED
      BY <1>1, <1>2, <2>2, <3>1 DEF RoundIsKept
  <2> HIDE DEF Search
  <2> QED
    BY <1>1, <2>1, <2>3, SearchStep
<1> QED
  BY <1>3, <1>4

LEMMA ReadLogsKeeps ==
  ASSUME DeliveryInv, ReadLogs
  PROVE  DeliveryInv'
<1> DEFINE found == {i \in DOMAIN mined : mined[i].block >= From /\ Matches(mined[i])}
<1>1. cli.pc = "logs" /\ SameChain /\ UNCHANGED <<nonce, msgCache>> /\ Typed /\ OutcomesFit
  BY DEF ReadLogs, Running, SameChain, chainVars, operatorVars, DeliveryInv
<1>2. CASE cli' = Going("ask")
  <2>1. "ask" \in Steps
    BY DEF Steps
  <2> HIDE DEF Going, NoProgress
  <2>2. /\ cli' \in CliData /\ cli'.pc = "ask" /\ cli'.shown = {}
        /\ cli'.progress = NoProgress
    BY <1>1, <1>2, <2>1, GoingFields
  <2>3. SendHasMessage' /\ VerdictIsTrue'
    BY <2>2 DEF SendHasMessage, VerdictIsTrue
  <2>4. nonce' \in 0 .. Len(Ids) /\ msgCache' \in Msgs \cup {Unknown} /\ cli'.pc # "receipt"
    BY <1>1, <2>2 DEF Typed
  <2> QED
    BY <1>1, <2>2, <2>3, <2>4, FreshStep
<1>3. ASSUME NEW last \in found, cli' = Verdict("verified", mined[last].tx)
      PROVE  DeliveryInv'
  <2>1. last \in DOMAIN mined /\ Matches(mined[last])
    OBVIOUS
  <2>2. mined[last].tx \in Txs
    BY <1>1, <2>1, EndedIsTx
  <2>3. world.mode # "layerzero" =>
          mined[last].tx.msg = cli.id /\ Ended(mined[last].tx, "executed")
    BY <1>1, <2>1 DEF Matches, OutcomesFit, Ended
  <2> HIDE DEF Verdict
  <2>4. PICK tx \in Txs : tx = mined[last].tx
    BY <2>2
  <2> QED
    BY <1>1, <1>3, <2>3, <2>4, VerdictStep
<1>4. cli' = Going("ask") \/ \E last \in found : cli' = Verdict("verified", mined[last].tx)
  <2> HIDE DEF Going, Verdict, Matches, From
  <2> QED
    BY DEF ReadLogs
<1> HIDE DEF found, Going, Verdict
<1> QED
  BY <1>2, <1>3, <1>4

-----------------------------------------------------------------------------
(* The theorems.                                                           *)

LEMMA DeliveryInitInv ==
  ASSUME DeliveryInit
  PROVE  DeliveryInv
<1>1. NoRow \in RowData /\ NoRow.exec = Unknown /\ NoRow.delivery = NoTx
      /\ NoRow.state = Unknown /\ NoRow.tx = NoTx
  BY DEF NoRow, RowData, States
<1>2. /\ cli \in CliData /\ cli.pc = "idle" /\ cli.shown = {} /\ cli.progress = NoProgress
  BY IdleFields DEF DeliveryInit
<1>3. mined \in Seq(Entry) /\ DOMAIN mined = {}
  BY DEF DeliveryInit
<1> HIDE DEF NoRow, NoTx, NoProgress, Idle
<1>4. Typed
  BY <1>1, <1>2, <1>3, IdsAreMsgs DEF DeliveryInit, Typed
<1>5. SendHasMessage /\ OutcomesFit /\ VerdictIsTrue /\ KnownIsTold
  BY <1>2, <1>3 DEF SendHasMessage, OutcomesFit, VerdictIsTrue, KnownIsTold, Running
<1>6. RowsAreTrue
  BY <1>1 DEF DeliveryInit, RowsAreTrue, RowIsTrue, Unknown
<1>7. ProgressIsTrue /\ RoundIsKept
  BY <1>2, NoProgressFields DEF ProgressIsTrue, Told, RoundIsKept, Unknown
<1> QED
  BY <1>4, <1>5, <1>6, <1>7 DEF DeliveryInv

LEMMA DeliveryStepInv ==
  ASSUME DeliveryInv, [DeliveryNext]_deliveryVars
  PROVE  DeliveryInv'
<1>1. CASE UNCHANGED deliveryVars
  <2>1. SameChain /\ UNCHANGED <<nonce, msgCache, cli>>
    BY <1>1 DEF deliveryVars, SameChain
  <2>2. OutcomesFit' /\ RowsAreTrue'
    BY <2>1, SameChainKeeps
  <2>3. Typed' /\ SendHasMessage'
    BY <2>1 DEF DeliveryInv, Typed, SendHasMessage, SameChain
  <2>4. ProgressIsTrue' /\ VerdictIsTrue'
    BY <2>1 DEF DeliveryInv, ProgressIsTrue, Told, Ended, Stands, VerdictIsTrue, SameChain
  <2>5. RoundIsKept' /\ KnownIsTold'
    BY <2>1 DEF DeliveryInv, RoundIsKept, KnownIsTold, Holds, Gathered, Listed, Running,
                SameChain
  <2> QED
    BY <2>2, <2>3, <2>4, <2>5 DEF DeliveryInv
<1>2. CASE ChainStep
  BY <1>2, ChainStepInv
<1>3. CASE \/ \E goal \in {"send", "e2e"} : StartSend(goal)
           \/ SendMessage \/ ReadEvent \/ SendFails
  BY <1>3, SendSteps
<1>4. CASE \/ \E id, tx \in {Ids[i] : i \in 1 .. nonce} \cup {Unknown} : StartWatch(id, tx)
           \/ Ready \/ NotReady \/ SearchFails \/ TimeOut \/ Exit
  BY <1>4, WatchSteps
<1>5. CASE AskOperator \/ AskFails \/ Conclude \/ ReadReceipt \/ ReadLogs
  BY <1>5, AskOperatorKeeps, AskFailsKeeps, ConcludeKeeps, ReadReceiptKeeps, ReadLogsKeeps
<1> QED
  BY <1>1, <1>2, <1>3, <1>4, <1>5 DEF DeliveryNext, ChainStep, CommandStep

(* What rows, watches and verdicts say is backed by a transaction of the   *)
(* destination chain, whatever the operators, the chain and the command do *)
(* between its questions, and wherever either of them stops.               *)
THEOREM DeliveryInvariant == DeliverySpec => []DeliveryInv
BY DeliveryInitInv, DeliveryStepInv, PTL DEF DeliverySpec

(* watch_message_with_verifier: a verdict on one message over CCIP         *)
(* contracts is of a transaction that ended that way.                      *)
THEOREM VerdictsAreTrue == DeliverySpec => []VerdictIsTrue
<1>1. DeliveryInv => VerdictIsTrue
  BY DEF DeliveryInv
<1> QED
  BY <1>1, DeliveryInvariant, PTL

(* query_progress, resolve_verified_tx: a round gives its verdict if an    *)
(* operator could when it began, answered, and still lists the message.    *)
THEOREM KnownAreTold == DeliverySpec => []KnownIsTold
<1>1. DeliveryInv => KnownIsTold
  BY DEF DeliveryInv
<1> QED
  BY <1>1, DeliveryInvariant, PTL

(* The rows of all operators keep to what their readers rely on, taken     *)
(* back or not: the watches read no more into them than Submission lets    *)
(* the loops and handlers of one operator write (save_submission_status).  *)
THEOREM RowsAreKept == DeliverySpec => RowsSpec
<1>1. DeliveryInit => Rows!Init
  <2> SUFFICES ASSUME DeliveryInit PROVE Rows!Init
    OBVIOUS
  <2>1. \A o \in Ops, m \in Msgs : row[o][m].state = Unknown /\ row[o][m].exec = Unknown
    BY DEF DeliveryInit, NoRow
  <2>2. \A k \in Ops \X Msgs : k[1] \in Ops /\ k[2] \in Msgs
    OBVIOUS
  <2>3. /\ RowStates = [k \in Ops \X Msgs |-> "Absent"]
        /\ RowOutcomes = [k \in Ops \X Msgs |-> "None"]
    BY <2>1, <2>2 DEF RowStates, RowOutcomes
  <2>4. DOMAIN mined = {}
    BY DEF DeliveryInit
  <2>5. EndsSoFar = {} /\ OutcomesSoFar = {}
    BY <2>4 DEF EndsSoFar, OutcomesSoFar
  <2> QED
    BY <2>3, <2>5 DEF Rows!Init, RowStates, RowOutcomes, EndsSoFar, OutcomesSoFar
<1>2. DeliveryInv /\ [DeliveryNext]_deliveryVars => [Rows!Next]_(Rows!vars)
  <2> SUFFICES ASSUME DeliveryInv, [DeliveryNext]_deliveryVars PROVE Rows!Next
    OBVIOUS
  <2>1. CASE ChainStep
    BY <2>1, ChainStepKeeps
  <2>2. CASE ~ChainStep
    <3>1. UNCHANGED <<row, mined>>
      BY <2>2 DEF DeliveryNext, ChainStep, CommandStep, StartSend, SendMessage, ReadEvent, SendFails,
           StartWatch, Ready, NotReady, AskOperator, AskFails, Conclude, ReadReceipt, ReadLogs,
           SearchFails, TimeOut, Exit, deliveryVars, chainVars, operatorVars
    <3> QED
      BY <3>1, ProceedImplementsRows
  <2> QED
    BY <2>1, <2>2
<1> QED
  BY <1>1, <1>2, DeliveryInvariant, PTL DEF DeliverySpec, RowsSpec, Rows!Spec

=============================================================================
