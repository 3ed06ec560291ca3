-------------------------- MODULE SubmissionProofs --------------------------
(***************************************************************************)
(* Proofs about Submission, for every set of messages and trees, any       *)
(* number of handlers, and any number of failures, webhooks and crashes.   *)
(***************************************************************************)
EXTENDS Submission, TLAPS

-----------------------------------------------------------------------------
(* The invariant.                                                          *)

Statuses == Settled \cup {"Absent", "Pending", "Submitted"}
RowData  == [status : Statuses, tx : SUBSET Trees, exec : {"None"} \cup Outcomes]
CopyData == [msg : Messages, row : RowData]

SubmitData == [pc : {"idle", "tree", "message", "shadow", "status", "skip", "pending",
                     "send", "save"},
               trees : SUBSET Trees, tree : SUBSET Trees, shadows : SUBSET Messages,
               primaries : SUBSET Messages, msg : SUBSET Messages]
PollData == [pc : {"idle", "get", "save"}, rows : SUBSET CopyData, write : SUBSET CopyData]

Typed ==
  /\ proved \subseteq Trees /\ labelled \subseteq Trees
  /\ row \in [Messages -> RowData]
  /\ byKey \subseteq Messages \X Trees /\ byTx \subseteq Messages \X Trees
  /\ submit \in SubmitData
  /\ poll \in PollData
  /\ handler \in [Handlers -> SUBSET CopyData]
  /\ relayer \in [Messages \X Trees -> {"none", "live"} \cup Ends]
  /\ executed \subseteq Messages \X Outcomes

(* The copies of rows in the hands of the polling loop and the handlers.   *)
Copies == poll.rows \cup poll.write \cup UNION {handler[h] : h \in Handlers}

(* The loop is past the checks of a message it may submit.                 *)
Sending == {"status", "skip", "pending", "send", "save"}

(* Only first messages with a leaf go as far as the relayer, and only if   *)
(* this operator executes them; a shadow is none of these.                 *)
LoopIsSound ==
  /\ \A m, n \in submit.msg : m = n
  /\ \A t \in submit.tree :
      /\ submit.primaries \subseteq Primaries(t)
      /\ submit.shadows \subseteq Ids(t) \ Primaries(t)
      /\ submit.pc \in Sending => submit.msg \subseteq Primaries(t)
      /\ submit.pc = "shadow" => submit.msg \subseteq Ids(t) \ Primaries(t)
      /\ submit.pc \in {"pending", "send", "save"} => submit.msg \subseteq Ours
      /\ submit.pc = "skip" => submit.msg \cap Ours = {}

(* While a message is handled there is a tree it is in.                    *)
LoopHasTree == submit.pc \in {"message", "shadow"} \cup Sending => submit.tree # {}

(* The relayer and its index know only of such messages.                   *)
AskedIsPrimary ==
  \A m \in Messages, t \in Trees :
    relayer[<<m, t>>] # "none" \/ <<m, t>> \in byTx => m \in Primaries(t) \cap Ours

(* What a row or a copy says of a transaction: it is in the index, and the *)
(* outcome is that of one of the message's transactions.                   *)
IsTrue(m, r) ==
  /\ \A t \in r.tx : <<m, t>> \in byTx
  /\ r.tx # {} => r.status \in {"Submitted", "Confirmed", "Failed"}
  /\ r.status = "Confirmed" =>
       \E t \in Trees : <<m, t>> \in byTx /\ relayer[<<m, t>>] = "confirmed"
  /\ r.status = "Failed" =>
       \E t \in Trees : <<m, t>> \in byTx /\ relayer[<<m, t>>] = "failed"

RowsAreTrue   == \A m \in Messages : IsTrue(m, row[m])
CopiesAreTrue == \A c \in Copies : IsTrue(c.msg, c.row)

SubmissionInv ==
  /\ Typed
  /\ LoopIsSound
  /\ LoopHasTree
  /\ AskedIsPrimary
  /\ RowsAreTrue
  /\ CopiesAreTrue

(* The hypothesis under which a message has one key: no two trees hold it. *)
OneTreeEach == \A t, u \in Trees : Ids(t) \cap Ids(u) # {} => t = u

(* What is recorded of a message without an execution event: a transaction *)
(* in the index is in the row and in every copy, the loop handles nothing  *)
(* that has one, and what was put before the relayer without being         *)
(* recorded is Pending.                                                    *)
Recorded(m) ==
  /\ (\E t \in Trees : <<m, t>> \in byTx) => row[m].tx # {}
  /\ \A c \in Copies : c.msg = m => c.row.tx # {}
  /\ m \in submit.msg /\ submit.pc \in {"skip", "pending", "send", "save"} =>
       \A t \in Trees : <<m, t>> \notin byTx
  /\ m \in submit.msg /\ submit.pc \in {"send", "save"} => row[m].status = "Pending"
  /\ (\E t \in Trees : relayer[<<m, t>>] # "none") /\ row[m].tx = {} =>
       row[m].status = "Pending"

RecordedIsKept == \A m \in Messages : ~IsExecuted(m) => Recorded(m)

-----------------------------------------------------------------------------
(* The operators of the model.                                             *)

LEMMA BatchTypes ==
  ASSUME NEW t \in Trees
  PROVE  Primaries(t) \subseteq Ids(t) /\ Ids(t) \subseteq Messages
<1>1. Batch[t] \in Seq(Messages)
  BY SubmissionConstants
<1> QED
  BY <1>1 DEF Primaries, Ids

(* partition_by_leaf: no two primaries of a batch have the same leaf.      *)
LEMMA PrimariesDiffer ==
  ASSUME NEW t \in Trees, NEW m \in Primaries(t), NEW n \in Primaries(t), Leaf[m] = Leaf[n]
  PROVE  m = n
<1>1. Batch[t] \in Seq(Messages)
  BY SubmissionConstants
<1>2. PICK i \in 1..Len(Batch[t]) :
        m = Batch[t][i] /\ \A k \in 1..(i - 1) : Leaf[Batch[t][k]] # Leaf[Batch[t][i]]
  BY DEF Primaries
<1>3. PICK j \in 1..Len(Batch[t]) :
        n = Batch[t][j] /\ \A k \in 1..(j - 1) : Leaf[Batch[t][k]] # Leaf[Batch[t][j]]
  BY DEF Primaries
<1>4. Len(Batch[t]) \in Nat
  BY <1>1
<1>5. i \in Nat /\ j \in Nat /\ 1 <= i /\ 1 <= j
  BY <1>4
<1>6. ~(i < j)
  <2>1. i < j => i \in 1..(j - 1)
    BY <1>5
  <2> QED
    BY <1>2, <1>3, <2>1
<1>7. ~(j < i)
  <2>1. j < i => j \in 1..(i - 1)
    BY <1>5
  <2> QED
    BY <1>2, <1>3, <2>1
<1>8. i = j
  BY <1>5, <1>6, <1>7
<1> QED
  BY <1>2, <1>3, <1>8

(* save_submission_status replaces a row except for a known outcome.       *)
LEMMA SaveEffect ==
  ASSUME Typed, NEW m \in Messages, NEW r \in RowData, Save(m, r)
  PROVE  /\ row' \in [Messages -> RowData]
         /\ byTx' \subseteq Messages \X Trees
         /\ row'[m].status = r.status /\ row'[m].tx = r.tx
         /\ row'[m].exec = IF row[m].exec = "None" THEN r.exec ELSE row[m].exec
         /\ \A i \in Messages : i # m => row'[i] = row[i]
         /\ byTx' = byTx \cup {<<m, t>> : t \in r.tx}
<1>1. row \in [Messages -> RowData] /\ row[m] \in RowData /\ byTx \subseteq Messages \X Trees
  BY DEF Typed
<1> DEFINE new == [r EXCEPT !.exec = IF row[m].exec = "None" THEN @ ELSE row[m].exec]
<1>2. /\ new \in RowData /\ new.status = r.status /\ new.tx = r.tx
      /\ new.exec = IF row[m].exec = "None" THEN r.exec ELSE row[m].exec
  BY <1>1 DEF RowData
<1>3. row' = [row EXCEPT ![m] = new] /\ byTx' = byTx \cup {<<m, t>> : t \in r.tx}
  BY DEF Save
<1> HIDE DEF new
<1>4. r.tx \subseteq Trees
  BY DEF RowData
<1>5. byTx' \subseteq Messages \X Trees
  BY <1>1, <1>3, <1>4
<1> QED
  BY <1>1, <1>2, <1>3, <1>5

LEMMA NewRowType ==
  ASSUME NEW s \in Statuses, NEW tx \in SUBSET Trees
  PROVE  /\ NewRow(s, tx) \in RowData /\ NewRow(s, tx).status = s
         /\ NewRow(s, tx).tx = tx /\ NewRow(s, tx).exec = "None"
BY DEF NewRow, RowData

LEMMA StatusNames ==
  {"Absent", "Pending", "Submitted", "Skipped", "Deduplicated", "Confirmed", "Failed"} = Statuses
BY DEF Statuses, Settled

-----------------------------------------------------------------------------
(* Types.                                                                  *)

LEMMA InitTyped == Init => Typed
<1> SUFFICES ASSUME Init PROVE Typed
  OBVIOUS
<1>1. NewRow("Absent", {}) \in RowData
  BY NewRowType, StatusNames
<1>2. row \in [Messages -> RowData] /\ relayer \in [Messages \X Trees -> {"none", "live"} \cup Ends]
  BY <1>1 DEF Init
<1>3. submit \in SubmitData /\ poll \in PollData /\ handler \in [Handlers -> SUBSET CopyData]
  BY DEF Init, IdleSubmit, SubmitData, IdlePoll, PollData
<1> QED
  BY <1>2, <1>3 DEF Init, Typed

(* A step of the loop that touches nothing but the loop.                   *)
LEMMA LoopTyped ==
  ASSUME Typed, ListTrees \/ EndTree \/ (\E t \in Trees : NextTree(t))
                \/ (\E m \in Messages : ReadShadow(m) \/ CheckKey(m) \/ CheckStatus(m))
  PROVE  Typed' /\ UNCHANGED <<treeVars, tableVars, poll, handler, relayer, executed>>
<1>1. submit \in SubmitData /\ proved \subseteq Trees
  BY DEF Typed
<1>2. UNCHANGED <<treeVars, tableVars, poll, handler, relayer, executed>>
  BY DEF ListTrees, EndTree, NextTree, ReadShadow, CheckKey, CheckStatus
<1>3. submit' \in SubmitData
  <2>1. CASE ListTrees
    BY <1>1, <2>1 DEF ListTrees, SubmitData
  <2>2. CASE EndTree
    BY <1>1, <2>2 DEF EndTree, SubmitData
  <2>3. ASSUME NEW t \in Trees, NextTree(t) PROVE submit' \in SubmitData
    <3>1. Primaries(t) \in SUBSET Messages /\ Ids(t) \ Primaries(t) \in SUBSET Messages
      BY BatchTypes
    <3> QED
      BY <1>1, <2>3, <3>1 DEF NextTree, SubmitData
  <2>4. ASSUME NEW m \in Messages, ReadShadow(m) PROVE submit' \in SubmitData
    BY <1>1, <2>4 DEF ReadShadow, SubmitData
  <2>5. ASSUME NEW m \in Messages, CheckKey(m) PROVE submit' \in SubmitData
    BY <1>1, <2>5 DEF CheckKey, SubmitData
  <2>6. ASSUME NEW m \in Messages, CheckStatus(m) PROVE submit' \in SubmitData
    BY <1>1, <2>6 DEF CheckStatus, SubmitData
  <2> QED
    BY <2>1, <2>2, <2>3, <2>4, <2>5, <2>6
<1> QED
  BY <1>2, <1>3 DEF Typed, treeVars, tableVars

(* A step that saves a row, and moves the task that saved it.              *)
LEMMA WriteTyped ==
  ASSUME Typed, NEW m \in Messages, NEW r \in RowData, Save(m, r),
         submit' \in SubmitData, poll' \in PollData,
         handler' \in [Handlers -> SUBSET CopyData],
         byKey' \subseteq Messages \X Trees, UNCHANGED <<treeVars, relayer, executed>>
  PROVE  Typed'
BY SaveEffect DEF Typed, treeVars

(* What each saving step of the loop saves.                                *)
LEMMA LoopWrites ==
  ASSUME Typed, NEW m \in Messages,
         WriteShadow(m) \/ SaveSkipped(m) \/ SavePending(m) \/ SaveSubmitted(m)
  PROVE  /\ Typed'
         /\ UNCHANGED <<treeVars, poll, handler, relayer, executed>>
         /\ m \in submit.msg
         /\ submit'.tree = submit.tree /\ submit'.primaries = submit.primaries
         /\ submit'.shadows = submit.shadows
         /\ submit'.pc = (IF SavePending(m) THEN "send" ELSE "message")
         /\ submit'.msg = (IF SavePending(m) THEN submit.msg ELSE {})
         /\ \E r \in RowData :
              /\ Save(m, r) /\ r.exec = "None"
              /\ \/ submit.pc = "shadow"  /\ r.status = "Deduplicated" /\ r.tx = {}
                 \/ submit.pc = "skip"    /\ r.status = "Skipped" /\ r.tx = {}
                 \/ submit.pc = "pending" /\ r.status = "Pending" /\ r.tx = {}
                 \/ submit.pc = "save"    /\ r.status = "Submitted" /\ r.tx = submit.tree
<1>1. submit \in SubmitData /\ submit.tree \subseteq Trees /\ byKey \subseteq Messages \X Trees
  BY DEF Typed, SubmitData
<1>2. poll \in PollData /\ handler \in [Handlers -> SUBSET CopyData]
  BY DEF Typed
<1>3. UNCHANGED <<treeVars, poll, handler, relayer, executed>>
  BY DEF WriteShadow, SaveSkipped, SavePending, SaveSubmitted
<1>4. byKey' \subseteq Messages \X Trees
  BY <1>1 DEF WriteShadow, SaveSkipped, SavePending, SaveSubmitted
<1>5. m \in submit.msg
  BY DEF WriteShadow, SaveSkipped, SavePending, SaveSubmitted
<1>6. CASE SavePending(m)
  <2>1. submit' = [submit EXCEPT !.pc = "send"] /\ submit.pc = "pending"
    BY <1>6 DEF SavePending
  <2>2. /\ submit' \in SubmitData /\ submit'.pc = "send" /\ submit'.tree = submit.tree
        /\ submit'.primaries = submit.primaries /\ submit'.shadows = submit.shadows
        /\ submit'.msg = submit.msg
    BY <1>1, <2>1 DEF SubmitData
  <2>3. NewRow("Pending", {}) \in RowData /\ NewRow("Pending", {}).status = "Pending"
        /\ NewRow("Pending", {}).tx = {} /\ NewRow("Pending", {}).exec = "None"
    BY NewRowType, StatusNames
  <2>4. Save(m, NewRow("Pending", {}))
    BY <1>6 DEF SavePending
  <2>5. Typed'
    BY <1>2, <1>3, <1>4, <2>2, <2>3, <2>4, WriteTyped
  <2> QED
    BY <1>3, <1>5, <1>6, <2>1, <2>2, <2>3, <2>4, <2>5
<1>7. CASE ~SavePending(m)
  <2>1. submit' = [submit EXCEPT !.pc = "message", !.msg = {}]
    BY <1>7 DEF WriteShadow, SaveSkipped, SaveSubmitted
  <2>2. /\ submit' \in SubmitData /\ submit'.pc = "message" /\ submit'.tree = submit.tree
        /\ submit'.primaries = submit.primaries /\ submit'.shadows = submit.shadows
        /\ submit'.msg = {}
    BY <1>1, <2>1 DEF SubmitData
  <2>3. PICK s \in Statuses, tx \in SUBSET Trees :
          /\ Save(m, NewRow(s, tx))
          /\ \/ submit.pc = "shadow" /\ s = "Deduplicated" /\ tx = {}
             \/ submit.pc = "skip"   /\ s = "Skipped" /\ tx = {}
             \/ submit.pc = "save"   /\ s = "Submitted" /\ tx = submit.tree
    <3>1. CASE WriteShadow(m)
      BY <3>1, StatusNames DEF WriteShadow
    <3>2. CASE SaveSkipped(m)
      BY <3>2, StatusNames DEF SaveSkipped
    <3>3. CASE SaveSubmitted(m)
      BY <1>1, <3>3, StatusNames DEF SaveSubmitted
    <3> QED
      BY <1>7, <3>1, <3>2, <3>3
  <2>4. /\ NewRow(s, tx) \in RowData /\ NewRow(s, tx).status = s /\ NewRow(s, tx).tx = tx
        /\ NewRow(s, tx).exec = "None"
    BY NewRowType
  <2>5. Typed'
    BY <1>2, <1>3, <1>4, <2>2, <2>3, <2>4, WriteTyped
  <2> QED
    BY <1>3, <1>5, <1>7, <2>2, <2>3, <2>4, <2>5
<1> QED
  BY <1>6, <1>7

(* What a call of the relayer does, whether its answer arrives or not.     *)
LEMMA SendEffect ==
  ASSUME Typed, NEW m \in Messages, Send(m) \/ SendFails(m)
  PROVE  /\ Typed'
         /\ UNCHANGED <<treeVars, tableVars, poll, handler, executed>>
         /\ submit.pc = "send" /\ m \in submit.msg
         /\ submit'.tree = submit.tree /\ submit'.primaries = submit.primaries
         /\ submit'.shadows = submit.shadows
         /\ \/ submit'.pc = "save" /\ submit'.msg = submit.msg
            \/ submit'.pc = "message" /\ submit'.msg = {}
         /\ \A i \in Messages, t \in Trees :
              \/ relayer'[<<i, t>>] = relayer[<<i, t>>]
              \/ i = m /\ t \in submit.tree /\ relayer[<<i, t>>] = "none"
<1>1. submit \in SubmitData
  BY DEF Typed
<1>2. UNCHANGED <<treeVars, tableVars, poll, handler, executed>>
      /\ submit.pc = "send" /\ m \in submit.msg
  BY DEF Send, SendFails
<1>3. \/ submit' = [submit EXCEPT !.pc = "save"]
      \/ submit' = [submit EXCEPT !.pc = "message", !.msg = {}]
  BY DEF Send, SendFails
<1>4. /\ submit' \in SubmitData
      /\ submit'.tree = submit.tree /\ submit'.primaries = submit.primaries
      /\ submit'.shadows = submit.shadows
      /\ \/ submit'.pc = "save" /\ submit'.msg = submit.msg
         \/ submit'.pc = "message" /\ submit'.msg = {}
  BY <1>1, <1>3 DEF SubmitData
<1>5. relayer' = relayer \/ relayer' = Accept(m)
  BY DEF Send, SendFails, SendTransaction
<1>6. relayer \in [Messages \X Trees -> {"none", "live"} \cup Ends]
  BY DEF Typed
<1>7. relayer' \in [Messages \X Trees -> {"none", "live"} \cup Ends]
  BY <1>5, <1>6 DEF Accept
<1>8. \A i \in Messages, t \in Trees :
        \/ relayer'[<<i, t>>] = relayer[<<i, t>>]
        \/ i = m /\ t \in submit.tree /\ relayer[<<i, t>>] = "none"
  BY <1>5, <1>6 DEF Accept
<1>9. Typed'
  BY <1>2, <1>4, <1>7 DEF Typed, treeVars, tableVars
<1> QED
  BY <1>2, <1>4, <1>8, <1>9

(* The polling loop: copies of rows, answers put into copies, and saves.   *)
LEMMA PollReads ==
  ASSUME Typed, ListPending \/ EndPoll \/ (\E c \in poll.rows : GetStatus(c) \/ GetFails(c))
  PROVE  /\ Typed'
         /\ UNCHANGED <<treeVars, tableVars, submit, handler, relayer, executed>>
         /\ \A c \in Copies' :
              \/ c \in Copies
              \/ c.row = row[c.msg] /\ NeedsPolling(c.msg) /\ c.msg \in Messages
              \/ \E d \in Copies, t \in Trees :
                   /\ c.msg = d.msg /\ t \in d.row.tx /\ c.row.tx = d.row.tx
                   /\ c.row.status = Told(d.row.status, relayer[<<d.msg, t>>])
                   /\ c.row.exec = d.row.exec
<1>1. /\ poll \in PollData /\ row \in [Messages -> RowData]
      /\ relayer \in [Messages \X Trees -> {"none", "live"} \cup Ends]
  BY DEF Typed
<1>2. UNCHANGED <<treeVars, tableVars, submit, handler, relayer, executed>>
  BY DEF ListPending, EndPoll, GetStatus, GetFails
<1>3. CASE ListPending
  <2> DEFINE rows == {[msg |-> m, row |-> row[m]] : m \in {n \in Messages : NeedsPolling(n)}}
  <2>1. rows \in SUBSET CopyData
    BY <1>1 DEF CopyData
  <2>2. poll' = [poll EXCEPT !.pc = "get", !.rows = rows]
    BY <1>3 DEF ListPending
  <2>3. \A c \in rows : c.row = row[c.msg] /\ NeedsPolling(c.msg) /\ c.msg \in Messages
    OBVIOUS
  <2> HIDE DEF rows
  <2>4. poll' \in PollData /\ poll'.rows = rows /\ poll'.write = poll.write
    BY <1>1, <2>1, <2>2 DEF PollData
  <2>5. Typed'
    BY <1>2, <2>4 DEF Typed, treeVars, tableVars
  <2>6. \A c \in Copies' : c \in Copies \/ c \in rows
    BY <1>2, <2>4 DEF Copies
  <2> QED
    BY <1>2, <2>3, <2>5, <2>6
<1>4. CASE EndPoll
  <2>1. poll' \in PollData /\ poll'.rows = {} /\ poll'.write = {}
    BY <1>4 DEF EndPoll, IdlePoll, PollData
  <2> QED
    BY <1>2, <2>1 DEF Typed, treeVars, tableVars, Copies
<1>5. ASSUME NEW c \in poll.rows, GetFails(c)
      PROVE  poll' \in PollData /\ poll'.rows \subseteq poll.rows /\ poll'.write = poll.write
  BY <1>1, <1>5 DEF GetFails, PollData
<1>6. ASSUME NEW c \in poll.rows, GetStatus(c)
      PROVE  /\ poll' \in PollData /\ poll'.rows \subseteq poll.rows
             /\ \A d \in poll'.write :
                  \E t \in Trees :
                    /\ d.msg = c.msg /\ t \in c.row.tx /\ d.row.tx = c.row.tx
                    /\ d.row.status = Told(c.row.status, relayer[<<c.msg, t>>])
                    /\ d.row.exec = c.row.exec
  <2>1. PICK t \in c.row.tx :
          poll' = [pc |-> "save", rows |-> poll.rows \ {c},
                   write |-> {[c EXCEPT !.row.status = Told(@, GetTransaction(c.msg, t))]}]
    BY <1>6 DEF GetStatus
  <2>2. c \in CopyData /\ c.row \in RowData /\ c.msg \in Messages /\ t \in Trees
    BY <1>1 DEF PollData, CopyData, RowData
  <2>3. Told(c.row.status, relayer[<<c.msg, t>>]) \in Statuses
    BY <2>2, StatusNames DEF Told, RowData
  <2> DEFINE d == [c EXCEPT !.row.status = Told(@, GetTransaction(c.msg, t))]
  <2>4. /\ d \in CopyData /\ d.msg = c.msg /\ d.row.tx = c.row.tx
        /\ d.row.status = Told(c.row.status, relayer[<<c.msg, t>>])
        /\ d.row.exec = c.row.exec
    <3> HIDE DEF Told
    <3> QED
      BY <2>2, <2>3 DEF CopyData, RowData, GetTransaction
  <2> HIDE DEF d
  <2>5. poll' = [pc |-> "save", rows |-> poll.rows \ {c}, write |-> {d}]
    BY <2>1 DEF d
  <2>6. poll' \in PollData /\ poll'.rows \subseteq poll.rows /\ poll'.write = {d}
    BY <1>1, <2>4, <2>5 DEF PollData
  <2> QED
    BY <2>2, <2>4, <2>6
<1>7. CASE \E c \in poll.rows : GetFails(c)
  <2>1. poll' \in PollData /\ poll'.rows \subseteq poll.rows /\ poll'.write = poll.write
    BY <1>5, <1>7
  <2> QED
    BY <1>2, <2>1 DEF Typed, treeVars, tableVars, Copies
<1>8. CASE \E c \in poll.rows : GetStatus(c)
  <2>1. PICK c \in poll.rows : GetStatus(c)
    BY <1>8
  <2>2. Typed'
    BY <1>2, <1>6, <2>1 DEF Typed, treeVars, tableVars
  <2>3. c \in Copies
    BY DEF Copies
  <2>4. \A d \in Copies' : d \in Copies \/ d \in poll'.write
    BY <1>2, <1>6, <2>1 DEF Copies
  <2> QED
    BY <1>2, <1>6, <2>1, <2>2, <2>3, <2>4
<1> QED
  BY <1>3, <1>4, <1>7, <1>8

(* A copy is saved as it is, by the polling loop or by a handler.          *)
LEMMA CopyWrites ==
  ASSUME Typed, (\E c \in poll.write : SavePolled(c)) \/ (\E h \in Handlers : SaveHandled(h))
  PROVE  /\ Typed'
         /\ UNCHANGED <<treeVars, submit, relayer, executed>>
         /\ Copies' \subseteq Copies
         /\ \E c \in Copies : Save(c.msg, c.row)
<1>1. /\ poll \in PollData /\ handler \in [Handlers -> SUBSET CopyData] /\ submit \in SubmitData
      /\ byKey \subseteq Messages \X Trees
  BY DEF Typed
<1>2. \A c \in Copies : c \in CopyData /\ c.msg \in Messages /\ c.row \in RowData
  BY <1>1 DEF Copies, PollData, CopyData
<1>3. CASE \E c \in poll.write : SavePolled(c)
  <2>1. PICK c \in poll.write : SavePolled(c)
    BY <1>3
  <2>2. UNCHANGED <<treeVars, byKey, submit, handler, relayer, executed>> /\ Save(c.msg, c.row)
    BY <2>1 DEF SavePolled
  <2>3. poll' = [poll EXCEPT !.pc = "get", !.write = {}]
    BY <2>1 DEF SavePolled
  <2>4. poll' \in PollData /\ poll'.rows = poll.rows /\ poll'.write = {}
    BY <1>1, <2>3 DEF PollData
  <2>5. c \in Copies /\ Copies' \subseteq Copies
    BY <2>2, <2>4 DEF Copies
  <2>6. Typed'
    BY <1>1, <1>2, <2>2, <2>4, <2>5, WriteTyped
  <2> QED
    BY <2>2, <2>5, <2>6
<1>4. CASE \E h \in Handlers : SaveHandled(h)
  <2>0. PICK h \in Handlers : SaveHandled(h)
    BY <1>4
  <2>1. PICK c \in handler[h] :
          Save(c.msg, c.row) /\ handler' = [handler EXCEPT ![h] = {}]
    BY <2>0 DEF SaveHandled
  <2>2. UNCHANGED <<treeVars, byKey, submit, poll, relayer, executed>>
    BY <1>4 DEF SaveHandled
  <2>3. handler' \in [Handlers -> SUBSET CopyData]
    BY <1>1, <2>1
  <2>4. c \in Copies
    BY DEF Copies
  <2>5. Copies' \subseteq Copies
    BY <1>1, <2>1, <2>2 DEF Copies
  <2>6. Typed'
    BY <1>1, <1>2, <2>1, <2>2, <2>3, <2>4, WriteTyped
  <2> QED
    BY <2>1, <2>2, <2>4, <2>5, <2>6
<1> QED
  BY <1>3, <1>4

(* A handler takes a copy of a row that the index knows, or one of a       *)
(* message that was executed.                                              *)
LEMMA HandlerReads ==
  ASSUME Typed, NEW h \in Handlers,
         (\E m \in Messages, t \in Trees : RelayerWebhook(h, m, t))
         \/ (\E m \in Messages, s \in Outcomes : ExecutionEvent(h, m, s))
  PROVE  /\ Typed'
         /\ UNCHANGED <<treeVars, tableVars, submit, poll, relayer, executed>>
         /\ \A c \in Copies' :
              \/ c \in Copies
              \/ \E m \in Messages, t \in Trees :
                   /\ <<m, t>> \in byTx /\ c.msg = m /\ c.row.tx = row[m].tx
                   /\ c.row.exec = row[m].exec
                   /\ \E told \in Reported(relayer[<<m, t>>]) \cup {"unknown"} :
                        c.row.status = UpdateStatus(row[m].status, told)
              \/ /\ c.msg \in Messages /\ IsExecuted(c.msg)
                 /\ c.row.exec # "None" /\ <<c.msg, c.row.exec>> \in executed
                 /\ c.row.status # "Absent"
                 /\ \/ c.row.tx = row[c.msg].tx /\ c.row.status = row[c.msg].status
                    \/ c.row.tx = {} /\ c.row.status = "Pending"
<1>1. /\ handler \in [Handlers -> SUBSET CopyData] /\ row \in [Messages -> RowData]
      /\ relayer \in [Messages \X Trees -> {"none", "live"} \cup Ends]
  BY DEF Typed
<1>2. UNCHANGED <<treeVars, tableVars, submit, poll, relayer, executed>>
  BY DEF RelayerWebhook, ExecutionEvent
<1>3. ASSUME NEW c \in CopyData, handler' = [handler EXCEPT ![h] = {c}]
      PROVE  Typed' /\ \A d \in Copies' : d \in Copies \/ d = c
  <2>1. handler' \in [Handlers -> SUBSET CopyData]
    BY <1>1, <1>3
  <2>2. \A g \in Handlers : handler'[g] = IF g = h THEN {c} ELSE handler[g]
    BY <1>1, <1>3
  <2>3. Typed'
    BY <1>2, <2>1 DEF Typed, treeVars, tableVars
  <2>4. \A d \in Copies' : d \in Copies \/ d = c
    BY <1>2, <2>2 DEF Copies
  <2> QED
    BY <2>3, <2>4
<1>4. ASSUME NEW m \in Messages, NEW t \in Trees, RelayerWebhook(h, m, t)
      PROVE  \E told \in Reported(relayer[<<m, t>>]) \cup {"unknown"}, c \in CopyData :
               /\ handler' = [handler EXCEPT ![h] = {c}]
               /\ <<m, t>> \in byTx /\ c.msg = m /\ c.row.tx = row[m].tx
               /\ c.row.exec = row[m].exec
               /\ c.row.status = UpdateStatus(row[m].status, told)
  <2>1. PICK r \in RowOfTx(m, t), told \in Reported(relayer[<<m, t>>]) \cup {"unknown"} :
          handler' = [handler EXCEPT ![h] =
                       {[msg |-> m, row |-> [r EXCEPT !.status = UpdateStatus(@, told)]]}]
    BY <1>4 DEF RelayerWebhook
  <2>2. r = row[m] /\ <<m, t>> \in byTx /\ r \in RowData
    BY <1>1, <2>1 DEF RowOfTx
  <2>3. UpdateStatus(r.status, told) \in Statuses
    BY <2>2, StatusNames DEF UpdateStatus, RowData, Statuses
  <2> DEFINE c == [msg |-> m, row |-> [r EXCEPT !.status = UpdateStatus(@, told)]]
  <2>4. /\ c \in CopyData /\ c.msg = m /\ c.row.tx = row[m].tx /\ c.row.exec = row[m].exec
        /\ c.row.status = UpdateStatus(row[m].status, told)
    <3> HIDE DEF UpdateStatus
    <3> QED
      BY <2>2, <2>3 DEF CopyData, RowData
  <2> HIDE DEF c
  <2>5. handler' = [handler EXCEPT ![h] = {c}]
    BY <2>1 DEF c
  <2> QED
    BY <2>1, <2>2, <2>4, <2>5
<1>5. ASSUME NEW m \in Messages, NEW s \in Outcomes, ExecutionEvent(h, m, s)
      PROVE  \E c \in CopyData :
               /\ handler' = [handler EXCEPT ![h] = {c}]
               /\ c.msg = m /\ IsExecuted(m)
               /\ c.row.exec # "None" /\ <<m, c.row.exec>> \in executed
               /\ c.row.status # "Absent"
               /\ \/ c.row.tx = row[m].tx /\ c.row.status = row[m].status
                  \/ c.row.tx = {} /\ c.row.status = "Pending"
  <2> DEFINE known == IF row[m].status = "Absent" THEN NewRow("Pending", {}) ELSE row[m]
             c == [msg |-> m, row |-> [known EXCEPT !.exec = s]]
  <2>1. handler' = [handler EXCEPT ![h] = {c}] /\ <<m, s>> \in executed
    BY <1>5 DEF ExecutionEvent
  <2>2. known \in RowData
        /\ (known = row[m] \/ (known.tx = {} /\ known.status = "Pending"))
        /\ known.status # "Absent"
    <3>1. NewRow("Pending", {}) \in RowData /\ NewRow("Pending", {}).tx = {}
          /\ NewRow("Pending", {}).status = "Pending"
      BY NewRowType, StatusNames
    <3>2. row[m] \in RowData
      BY <1>1
    <3> QED
      BY <3>1, <3>2
  <2> HIDE DEF known
  <2>3. /\ c \in CopyData /\ c.msg = m /\ c.row.tx = known.tx
        /\ c.row.status = known.status /\ c.row.exec = s
    BY <2>2 DEF CopyData, RowData
  <2> HIDE DEF c
  <2> QED
    BY <2>1, <2>2, <2>3 DEF IsExecuted, Outcomes
<1>6. CASE \E m \in Messages, t \in Trees : RelayerWebhook(h, m, t)
  <2>0. PICK m \in Messages, t \in Trees : RelayerWebhook(h, m, t)
    BY <1>6
  <2>1. PICK told \in Reported(relayer[<<m, t>>]) \cup {"unknown"}, c \in CopyData :
               /\ handler' = [handler EXCEPT ![h] = {c}]
               /\ <<m, t>> \in byTx /\ c.msg = m /\ c.row.tx = row[m].tx
               /\ c.row.exec = row[m].exec
               /\ c.row.status = UpdateStatus(row[m].status, told)
    BY <1>4, <2>0
  <2>2. Typed' /\ \A d \in Copies' : d \in Copies \/ d = c
    BY <1>3, <2>1
  <2> QED
    BY <1>2, <2>1, <2>2
<1>7. CASE \E m \in Messages, s \in Outcomes : ExecutionEvent(h, m, s)
  <2>0. PICK m \in Messages, s \in Outcomes : ExecutionEvent(h, m, s)
    BY <1>7
  <2>1. PICK c \in CopyData :
               /\ handler' = [handler EXCEPT ![h] = {c}]
               /\ c.msg = m /\ IsExecuted(m)
               /\ c.row.exec # "None" /\ <<m, c.row.exec>> \in executed
               /\ c.row.status # "Absent"
               /\ \/ c.row.tx = row[m].tx /\ c.row.status = row[m].status
                  \/ c.row.tx = {} /\ c.row.status = "Pending"
    BY <1>5, <2>0
  <2>2. Typed' /\ \A d \in Copies' : d \in Copies \/ d = c
    BY <1>3, <2>1
  <2> QED
    BY <1>2, <2>1, <2>2
<1> QED
  BY <1>6, <1>7

-----------------------------------------------------------------------------
(* Preservation.                                                           *)

(* An outcome of the relayer is final.                                     *)
RelayerMoves ==
  \A m \in Messages, t \in Trees : relayer[<<m, t>>] \in Ends => relayer'[<<m, t>>] = relayer[<<m, t>>]

(* Steps that save nothing: what was true of a row or a copy stays true.   *)
LEMMA UnsavedIsTrue ==
  ASSUME Typed, RowsAreTrue, CopiesAreTrue, UNCHANGED tableVars, RelayerMoves,
         \A c \in Copies' : c \in Copies \/ (c.msg \in Messages /\ IsTrue(c.msg, c.row))
  PROVE  RowsAreTrue' /\ CopiesAreTrue'
<1>1. row' = row /\ byTx' = byTx
  BY DEF tableVars
<1>2. \A c \in Copies : c.msg \in Messages /\ IsTrue(c.msg, c.row)
  BY DEF Typed, Copies, PollData, CopyData, CopiesAreTrue
<1>3. \A m \in Messages : \A r : IsTrue(m, r) => IsTrue(m, r)'
  BY <1>1 DEF IsTrue, RelayerMoves, Ends
<1>4. RowsAreTrue'
  <2>1. \A m \in Messages : IsTrue(m, row[m])
    BY DEF RowsAreTrue
  <2>2. \A m \in Messages : IsTrue(m, row[m])'
    <3> SUFFICES ASSUME NEW m \in Messages PROVE IsTrue(m, row[m])'
      OBVIOUS
    <3>1. IsTrue(m, row[m])
      BY <2>1
    <3> QED
      BY <1>1, <3>1 DEF IsTrue, RelayerMoves, Ends
  <2> QED
    BY <2>2 DEF RowsAreTrue
<1>5. CopiesAreTrue'
  BY <1>2, <1>3 DEF CopiesAreTrue
<1> QED
  BY <1>4, <1>5

(* A save of a row that says the truth.                                    *)
LEMMA SavedIsTrue ==
  ASSUME Typed, RowsAreTrue, CopiesAreTrue, UNCHANGED relayer, Copies' \subseteq Copies,
         NEW m \in Messages, NEW r \in RowData, Save(m, r),
         r.tx # {} => r.status \in {"Submitted", "Confirmed", "Failed"},
         r.status \in {"Confirmed", "Failed"} => IsTrue(m, r)
  PROVE  RowsAreTrue' /\ CopiesAreTrue'
<1>1. /\ row'[m].status = r.status /\ row'[m].tx = r.tx
      /\ \A i \in Messages : i # m => row'[i] = row[i]
      /\ byTx' = byTx \cup {<<m, t>> : t \in r.tx}
  BY SaveEffect
<1>2. \A i \in Messages : \A q : IsTrue(i, q) => IsTrue(i, q)'
  BY <1>1 DEF IsTrue
<1>3. CopiesAreTrue'
  <2>1. \A c \in Copies : c.msg \in Messages /\ IsTrue(c.msg, c.row)
    BY DEF Typed, Copies, PollData, CopyData, CopiesAreTrue
  <2> QED
    BY <1>2, <2>1 DEF CopiesAreTrue
<1>4. ASSUME NEW i \in Messages, i # m PROVE IsTrue(i, row[i])'
  <2>1. IsTrue(i, row[i]) /\ row'[i] = row[i]
    BY <1>1, <1>4 DEF RowsAreTrue
  <2> QED
    BY <1>1, <2>1 DEF IsTrue
<1>5. IsTrue(m, row[m])'
  BY <1>1 DEF IsTrue
<1>6. RowsAreTrue'
  BY <1>4, <1>5 DEF RowsAreTrue
<1> QED
  BY <1>3, <1>6

(* The index grows by the saved row's transactions.                        *)
LEMMA SavedIsPrimary ==
  ASSUME Typed, AskedIsPrimary, UNCHANGED relayer,
         NEW m \in Messages, NEW r \in RowData, Save(m, r),
         \A t \in r.tx : m \in Primaries(t) \cap Ours
  PROVE  AskedIsPrimary'
<1>1. byTx' = byTx \cup {<<m, t>> : t \in r.tx}
  BY SaveEffect
<1> QED
  BY <1>1 DEF AskedIsPrimary

(* The steps of the loop that save nothing keep it sound.                  *)
LEMMA LoopStaysSound ==
  ASSUME Typed, LoopIsSound, LoopHasTree,
         ListTrees \/ EndTree \/ (\E t \in Trees : NextTree(t))
         \/ (\E m \in Messages : ReadShadow(m) \/ CheckKey(m) \/ CheckStatus(m))
  PROVE  LoopIsSound' /\ LoopHasTree'
<1>1. submit \in SubmitData
  BY DEF Typed
<1>2. CASE ListTrees
  <2>1. submit' = [submit EXCEPT !.pc = "tree", !.trees = {t \in proved : NeedsSubmission(t)}]
    BY <1>2 DEF ListTrees
  <2>2. /\ submit'.pc = "tree" /\ submit'.tree = submit.tree /\ submit'.msg = submit.msg
        /\ submit'.primaries = submit.primaries /\ submit'.shadows = submit.shadows
    BY <1>1, <2>1 DEF SubmitData
  <2> QED
    BY <2>2 DEF LoopIsSound, LoopHasTree, Sending
<1>3. CASE EndTree
  <2>1. submit'.tree = {} /\ submit'.pc \in {"idle", "tree"} /\ submit'.msg = submit.msg
    BY <1>1, <1>3 DEF EndTree, SubmitData
  <2> QED
    BY <2>1 DEF LoopIsSound, LoopHasTree, Sending
<1>4. ASSUME NEW t \in Trees, NextTree(t) PROVE LoopIsSound' /\ LoopHasTree'
  <2>1. /\ submit'.pc = "message" /\ submit'.tree = {t} /\ submit'.msg = submit.msg
        /\ submit'.primaries = Primaries(t) /\ submit'.shadows = Ids(t) \ Primaries(t)
    BY <1>1, <1>4 DEF NextTree, SubmitData
  <2> QED
    BY <2>1 DEF LoopIsSound, LoopHasTree, Sending
<1>5. ASSUME NEW m \in Messages, ReadShadow(m) PROVE LoopIsSound' /\ LoopHasTree'
  <2>1. /\ submit.pc = "message" /\ m \in submit.shadows /\ submit'.tree = submit.tree
        /\ submit'.primaries = submit.primaries /\ submit'.shadows \subseteq submit.shadows
        /\ \/ submit'.pc = "message" /\ submit'.msg = submit.msg
           \/ submit'.pc = "shadow" /\ submit'.msg = {m}
    BY <1>1, <1>5 DEF ReadShadow, SubmitData
  <2>2. CASE submit'.pc = "message" /\ submit'.msg = submit.msg
    BY <2>1, <2>2 DEF LoopIsSound, LoopHasTree, Sending
  <2>3. CASE submit'.pc = "shadow" /\ submit'.msg = {m}
    <3>1. submit.tree # {} /\ \A t \in submit.tree :
            /\ submit.primaries \subseteq Primaries(t)
            /\ submit.shadows \subseteq Ids(t) \ Primaries(t)
            /\ m \in Ids(t) \ Primaries(t)
      BY <2>1 DEF LoopIsSound, LoopHasTree
    <3> QED
      BY <2>1, <2>3, <3>1 DEF LoopIsSound, LoopHasTree, Sending
  <2> QED
    BY <2>1, <2>2, <2>3
<1>6. ASSUME NEW m \in Messages, CheckKey(m) PROVE LoopIsSound' /\ LoopHasTree'
  <2>1. /\ submit.pc = "message" /\ m \in submit.primaries /\ submit'.tree = submit.tree
        /\ submit'.primaries \subseteq submit.primaries /\ submit'.shadows = submit.shadows
        /\ \/ submit'.pc = "message" /\ submit'.msg = submit.msg
           \/ submit'.pc = "status" /\ submit'.msg = {m}
    BY <1>1, <1>6 DEF CheckKey, SubmitData
  <2>2. CASE submit'.pc = "message" /\ submit'.msg = submit.msg
    BY <2>1, <2>2 DEF LoopIsSound, LoopHasTree, Sending
  <2>3. CASE submit'.pc = "status" /\ submit'.msg = {m}
    <3>1. submit.tree # {} /\ \A t \in submit.tree :
            /\ submit.primaries \subseteq Primaries(t)
            /\ submit.shadows \subseteq Ids(t) \ Primaries(t)
            /\ m \in Primaries(t)
      BY <2>1 DEF LoopIsSound, LoopHasTree
    <3> QED
      BY <2>1, <2>3, <3>1 DEF LoopIsSound, LoopHasTree, Sending
  <2> QED
    BY <2>1, <2>2, <2>3
<1>7. ASSUME NEW m \in Messages, CheckStatus(m) PROVE LoopIsSound' /\ LoopHasTree'
  <2>1. /\ submit.pc = "status" /\ m \in submit.msg /\ submit'.tree = submit.tree
        /\ submit'.primaries = submit.primaries /\ submit'.shadows = submit.shadows
        /\ \/ submit'.pc = "message" /\ submit'.msg = {}
           \/ submit'.pc = "pending" /\ submit'.msg = submit.msg /\ m \in Ours
           \/ submit'.pc = "skip" /\ submit'.msg = submit.msg /\ m \notin Ours
    BY <1>1, <1>7 DEF CheckStatus, SubmitData
  <2>2. CASE submit'.pc = "message" /\ submit'.msg = {}
    BY <2>1, <2>2 DEF LoopIsSound, LoopHasTree, Sending
  <2>3. submit.msg = {m}
    BY <2>1 DEF LoopIsSound
  <2>4. CASE submit'.pc = "pending" /\ submit'.msg = submit.msg /\ m \in Ours
    BY <2>1, <2>3, <2>4 DEF LoopIsSound, LoopHasTree, Sending
  <2>5. CASE submit'.pc = "skip" /\ submit'.msg = submit.msg /\ m \notin Ours
    BY <2>1, <2>3, <2>5 DEF LoopIsSound, LoopHasTree, Sending
  <2> QED
    BY <2>1, <2>2, <2>4, <2>5
<1> QED
  BY <1>2, <1>3, <1>4, <1>5, <1>6, <1>7

(* What leaves the loop alone leaves it sound, and what leaves the relayer *)
(* and its index alone leaves them to first messages.                      *)
LEMMA OthersKeepLoop ==
  ASSUME LoopIsSound, LoopHasTree, UNCHANGED submit
  PROVE  LoopIsSound' /\ LoopHasTree'
BY DEF LoopIsSound, LoopHasTree

LEMMA OthersKeepAsked ==
  ASSUME AskedIsPrimary, UNCHANGED <<relayer, byTx>>
  PROVE  AskedIsPrimary'
BY DEF AskedIsPrimary

LEMMA LoopKeepsInv ==
  ASSUME SubmissionInv,
         ListTrees \/ EndTree \/ (\E t \in Trees : NextTree(t))
         \/ (\E m \in Messages : ReadShadow(m) \/ CheckKey(m) \/ CheckStatus(m))
  PROVE  SubmissionInv'
<1>1. Typed' /\ UNCHANGED <<treeVars, tableVars, poll, handler, relayer, executed>>
  BY LoopTyped DEF SubmissionInv
<1>2. LoopIsSound' /\ LoopHasTree'
  BY LoopStaysSound DEF SubmissionInv
<1>3. RelayerMoves /\ Copies' = Copies
  BY <1>1 DEF RelayerMoves, Copies
<1>4. RowsAreTrue' /\ CopiesAreTrue'
  BY <1>1, <1>3, UnsavedIsTrue DEF SubmissionInv
<1>5. AskedIsPrimary'
  BY <1>1, OthersKeepAsked DEF SubmissionInv, tableVars
<1> QED
  BY <1>1, <1>2, <1>4, <1>5 DEF SubmissionInv

LEMMA LoopWritesKeepInv ==
  ASSUME SubmissionInv, NEW m \in Messages,
         WriteShadow(m) \/ SaveSkipped(m) \/ SavePending(m) \/ SaveSubmitted(m)
  PROVE  SubmissionInv'
<1> USE DEF SubmissionInv
<1>1. /\ Typed'
      /\ UNCHANGED <<treeVars, poll, handler, relayer, executed>>
      /\ m \in submit.msg
      /\ submit'.tree = submit.tree /\ submit'.primaries = submit.primaries
      /\ submit'.shadows = submit.shadows
      /\ submit'.pc = (IF SavePending(m) THEN "send" ELSE "message")
      /\ submit'.msg = (IF SavePending(m) THEN submit.msg ELSE {})
  BY LoopWrites
<1>2. PICK r \in RowData :
        /\ Save(m, r)
        /\ \/ submit.pc = "shadow"  /\ r.status = "Deduplicated" /\ r.tx = {}
           \/ submit.pc = "skip"    /\ r.status = "Skipped" /\ r.tx = {}
           \/ submit.pc = "pending" /\ r.status = "Pending" /\ r.tx = {}
           \/ submit.pc = "save"    /\ r.status = "Submitted" /\ r.tx = submit.tree
  BY LoopWrites
<1>3. SavePending(m) => submit.pc = "pending"
  BY DEF SavePending
<1>4. ~SavePending(m) => submit.pc \in {"shadow", "skip", "save"}
  BY DEF WriteShadow, SaveSkipped, SaveSubmitted
<1>5. LoopIsSound' /\ LoopHasTree'
  <2>1. CASE SavePending(m)
    BY <1>1, <1>3, <2>1 DEF LoopIsSound, LoopHasTree, Sending
  <2>2. CASE ~SavePending(m)
    BY <1>1, <1>4, <2>2 DEF LoopIsSound, LoopHasTree, Sending
  <2> QED
    BY <2>1, <2>2
<1>6. Copies' \subseteq Copies
  BY <1>1 DEF Copies
<1>7. RowsAreTrue' /\ CopiesAreTrue'
  BY <1>1, <1>2, <1>6, SavedIsTrue
<1>8. \A t \in r.tx : m \in Primaries(t) \cap Ours
  BY <1>1, <1>2 DEF LoopIsSound, Sending
<1>9. AskedIsPrimary'
  BY <1>1, <1>2, <1>8, SavedIsPrimary
<1> QED
  BY <1>1, <1>5, <1>7, <1>9

LEMMA SendKeepsInv ==
  ASSUME SubmissionInv, NEW m \in Messages, Send(m) \/ SendFails(m)
  PROVE  SubmissionInv'
<1> USE DEF SubmissionInv
<1>1. /\ Typed'
      /\ UNCHANGED <<treeVars, tableVars, poll, handler, executed>>
      /\ submit.pc = "send" /\ m \in submit.msg
      /\ submit'.tree = submit.tree /\ submit'.primaries = submit.primaries
      /\ submit'.shadows = submit.shadows
      /\ \/ submit'.pc = "save" /\ submit'.msg = submit.msg
         \/ submit'.pc = "message" /\ submit'.msg = {}
      /\ \A i \in Messages, t \in Trees :
           \/ relayer'[<<i, t>>] = relayer[<<i, t>>]
           \/ i = m /\ t \in submit.tree /\ relayer[<<i, t>>] = "none"
  BY SendEffect
<1>2. LoopIsSound' /\ LoopHasTree'
  <2>1. CASE submit'.pc = "save" /\ submit'.msg = submit.msg
    BY <1>1, <2>1 DEF LoopIsSound, LoopHasTree, Sending
  <2>2. CASE submit'.pc = "message" /\ submit'.msg = {}
    BY <1>1, <2>2 DEF LoopIsSound, LoopHasTree, Sending
  <2> QED
    BY <1>1, <2>1, <2>2
<1>3. RelayerMoves /\ Copies' = Copies
  BY <1>1 DEF RelayerMoves, Ends, Copies
<1>4. RowsAreTrue' /\ CopiesAreTrue'
  BY <1>1, <1>3, UnsavedIsTrue
<1>5. \A t \in submit.tree : m \in Primaries(t) \cap Ours
  BY <1>1 DEF LoopIsSound, Sending
<1>6. AskedIsPrimary'
  BY <1>1, <1>5 DEF AskedIsPrimary, tableVars
<1> QED
  BY <1>1, <1>2, <1>4, <1>6

LEMMA PollKeepsInv ==
  ASSUME SubmissionInv,
         ListPending \/ EndPoll \/ (\E c \in poll.rows : GetStatus(c) \/ GetFails(c))
  PROVE  SubmissionInv'
<1> USE DEF SubmissionInv
<1>1. /\ Typed'
      /\ UNCHANGED <<treeVars, tableVars, submit, handler, relayer, executed>>
      /\ \A c \in Copies' :
           \/ c \in Copies
           \/ c.row = row[c.msg] /\ NeedsPolling(c.msg) /\ c.msg \in Messages
           \/ \E d \in Copies, t \in Trees :
                /\ c.msg = d.msg /\ t \in d.row.tx /\ c.row.tx = d.row.tx
                /\ c.row.status = Told(d.row.status, relayer[<<d.msg, t>>])
  BY PollReads
<1>2. \A c \in Copies : c.msg \in Messages /\ IsTrue(c.msg, c.row)
  BY DEF Typed, Copies, PollData, CopyData, CopiesAreTrue
<1>3. ASSUME NEW c, NEW d \in Copies, NEW t \in Trees,
             c.msg = d.msg, t \in d.row.tx, c.row.tx = d.row.tx,
             c.row.status = Told(d.row.status, relayer[<<d.msg, t>>])
      PROVE  c.msg \in Messages /\ IsTrue(c.msg, c.row)
  <2>1. d.msg \in Messages /\ IsTrue(d.msg, d.row) /\ <<d.msg, t>> \in byTx
    BY <1>2, <1>3 DEF IsTrue
  <2>2. CASE relayer[<<d.msg, t>>] = "confirmed"
    <3>1. c.row.status = "Confirmed"
      BY <1>3, <2>2 DEF Told
    <3> QED
      BY <1>3, <2>1, <2>2, <3>1 DEF IsTrue
  <2>3. CASE relayer[<<d.msg, t>>] = "failed"
    <3>1. c.row.status = "Failed"
      BY <1>3, <2>3 DEF Told
    <3> QED
      BY <1>3, <2>1, <2>3, <3>1 DEF IsTrue
  <2>4. CASE relayer[<<d.msg, t>>] \notin {"confirmed", "failed"}
    <3>1. c.row.status = d.row.status
      BY <1>3, <2>4 DEF Told
    <3> QED
      BY <1>3, <2>1, <3>1 DEF IsTrue
  <2> QED
    BY <2>2, <2>3, <2>4
<1>4. \A c \in Copies' : c \in Copies \/ (c.msg \in Messages /\ IsTrue(c.msg, c.row))
  BY <1>1, <1>3 DEF RowsAreTrue
<1>5. RelayerMoves
  BY <1>1 DEF RelayerMoves
<1>6. RowsAreTrue' /\ CopiesAreTrue'
  BY <1>1, <1>4, <1>5, UnsavedIsTrue
<1> QED
  BY <1>1, <1>6, OthersKeepLoop, OthersKeepAsked DEF tableVars

LEMMA CopyWritesKeepInv ==
  ASSUME SubmissionInv,
         (\E c \in poll.write : SavePolled(c)) \/ (\E h \in Handlers : SaveHandled(h))
  PROVE  SubmissionInv'
<1> USE DEF SubmissionInv
<1>1. Typed' /\ UNCHANGED <<treeVars, submit, relayer, executed>> /\ Copies' \subseteq Copies
  BY CopyWrites
<1>2. PICK c \in Copies : Save(c.msg, c.row)
  BY CopyWrites
<1>3. c.msg \in Messages /\ c.row \in RowData /\ IsTrue(c.msg, c.row)
  BY DEF Typed, Copies, PollData, CopyData, CopiesAreTrue
<1>4. \A t \in c.row.tx : c.msg \in Primaries(t) \cap Ours
  BY <1>3 DEF IsTrue, AskedIsPrimary, RowData
<1>5. c.row.tx # {} => c.row.status \in {"Submitted", "Confirmed", "Failed"}
  BY <1>3 DEF IsTrue
<1>6. RowsAreTrue' /\ CopiesAreTrue'
  BY <1>1, <1>2, <1>3, <1>5, SavedIsTrue
<1>7. AskedIsPrimary'
  BY <1>1, <1>2, <1>3, <1>4, SavedIsPrimary
<1> QED
  BY <1>1, <1>6, <1>7, OthersKeepLoop

LEMMA HandlerReadsKeepInv ==
  ASSUME SubmissionInv, NEW h \in Handlers,
         (\E m \in Messages, t \in Trees : RelayerWebhook(h, m, t))
         \/ (\E m \in Messages, s \in Outcomes : ExecutionEvent(h, m, s))
  PROVE  SubmissionInv'
<1> USE DEF SubmissionInv
<1>1. /\ Typed'
      /\ UNCHANGED <<treeVars, tableVars, submit, poll, relayer, executed>>
      /\ \A c \in Copies' :
           \/ c \in Copies
           \/ \E m \in Messages, t \in Trees :
                /\ <<m, t>> \in byTx /\ c.msg = m /\ c.row.tx = row[m].tx
                /\ \E told \in Reported(relayer[<<m, t>>]) \cup {"unknown"} :
                     c.row.status = UpdateStatus(row[m].status, told)
           \/ /\ c.msg \in Messages /\ IsExecuted(c.msg)
              /\ \/ c.row.tx = row[c.msg].tx /\ c.row.status = row[c.msg].status
                 \/ c.row.tx = {} /\ c.row.status = "Pending"
  BY HandlerReads
<1>2. \A m \in Messages : IsTrue(m, row[m])
  BY DEF RowsAreTrue
<1>3. ASSUME NEW c, NEW m \in Messages, NEW t \in Trees, <<m, t>> \in byTx,
             c.msg = m, c.row.tx = row[m].tx,
             NEW told \in Reported(relayer[<<m, t>>]) \cup {"unknown"},
             c.row.status = UpdateStatus(row[m].status, told)
      PROVE  c.msg \in Messages /\ IsTrue(c.msg, c.row)
  <2>1. relayer[<<m, t>>] \in {"none", "live"} \cup Ends
    BY DEF Typed
  <2>2. \/ c.row.status = row[m].status
        \/ c.row.status = "Submitted"
        \/ c.row.status = "Confirmed" /\ relayer[<<m, t>>] = "confirmed"
        \/ c.row.status = "Failed" /\ relayer[<<m, t>>] = "failed"
    BY <1>3, <2>1 DEF Reported, UpdateStatus, Ends, Settled
  <2>3. IsTrue(m, row[m])
    BY <1>2
  <2> QED
    BY <1>3, <2>2, <2>3 DEF IsTrue
<1>4. ASSUME NEW c, c.msg \in Messages,
             \/ c.row.tx = row[c.msg].tx /\ c.row.status = row[c.msg].status
             \/ c.row.tx = {} /\ c.row.status = "Pending"
      PROVE  IsTrue(c.msg, c.row)
  <2>1. IsTrue(c.msg, row[c.msg])
    BY <1>2, <1>4
  <2> QED
    BY <1>4, <2>1 DEF IsTrue
<1>5. \A c \in Copies' : c \in Copies \/ (c.msg \in Messages /\ IsTrue(c.msg, c.row))
  BY <1>1, <1>3, <1>4
<1>6. RelayerMoves
  BY <1>1 DEF RelayerMoves
<1>7. RowsAreTrue' /\ CopiesAreTrue'
  BY <1>1, <1>5, <1>6, UnsavedIsTrue
<1> QED
  BY <1>1, <1>7, OthersKeepLoop, OthersKeepAsked DEF tableVars

LEMMA OutsideKeepsInv ==
  ASSUME SubmissionInv,
         (\E t \in Trees : ProveTree(t)) \/ (\E m \in Messages, t \in Trees : Settle(m, t))
         \/ (\E m \in Messages, s \in Outcomes : Execute(m, s)) \/ Crash \/ UNCHANGED vars
  PROVE  SubmissionInv'
<1> USE DEF SubmissionInv
<1>1. UNCHANGED tableVars
  BY DEF ProveTree, Settle, Execute, Crash, vars
<1>2. Copies' \subseteq Copies
  <2>1. CASE Crash
    <3>1. poll' = IdlePoll /\ \A h \in Handlers : handler'[h] = {}
      BY <2>1 DEF Crash
    <3> QED
      BY <3>1 DEF Copies, IdlePoll
  <2>2. CASE ~Crash
    <3>1. UNCHANGED <<poll, handler>>
      BY <2>2 DEF ProveTree, Settle, Execute, vars
    <3> QED
      BY <3>1 DEF Copies
  <2> QED
    BY <2>1, <2>2
<1>3. LoopIsSound' /\ LoopHasTree'
  <2>1. CASE Crash
    <3>1. submit' = IdleSubmit
      BY <2>1 DEF Crash
    <3> QED
      BY <3>1 DEF IdleSubmit, LoopIsSound, LoopHasTree, Sending
  <2>2. CASE ~Crash
    <3>1. UNCHANGED submit
      BY <2>2 DEF ProveTree, Settle, Execute, vars
    <3> QED
      BY <3>1, OthersKeepLoop
  <2> QED
    BY <2>1, <2>2
<1>4. /\ relayer' \in [Messages \X Trees -> {"none", "live"} \cup Ends] /\ RelayerMoves
      /\ \A i \in Messages, u \in Trees : relayer'[<<i, u>>] # "none" => relayer[<<i, u>>] # "none"
  <2>1. relayer \in [Messages \X Trees -> {"none", "live"} \cup Ends]
    BY DEF Typed
  <2>2. CASE \E m \in Messages, t \in Trees : Settle(m, t)
    <3>1. PICK m \in Messages, t \in Trees : Settle(m, t)
      BY <2>2
    <3>2. PICK s \in Ends : relayer' = [relayer EXCEPT ![<<m, t>>] = s]
      BY <3>1 DEF Settle
    <3>3. relayer[<<m, t>>] = "live"
      BY <3>1 DEF Settle
    <3>4. \A i \in Messages, u \in Trees :
            relayer'[<<i, u>>] = IF i = m /\ u = t THEN s ELSE relayer[<<i, u>>]
      BY <2>1, <3>2
    <3>5. relayer' \in [Messages \X Trees -> {"none", "live"} \cup Ends]
      BY <2>1, <3>2
    <3> QED
      BY <3>3, <3>4, <3>5 DEF RelayerMoves, Ends
  <2>3. CASE ~\E m \in Messages, t \in Trees : Settle(m, t)
    <3>1. UNCHANGED relayer
      BY <2>3 DEF ProveTree, Execute, Crash, vars
    <3> QED
      BY <2>1, <3>1 DEF RelayerMoves
  <2> QED
    BY <2>2, <2>3
<1>5. AskedIsPrimary'
  BY <1>1, <1>4 DEF AskedIsPrimary, tableVars
<1>6. RowsAreTrue' /\ CopiesAreTrue'
  BY <1>1, <1>2, <1>4, UnsavedIsTrue
<1>7. /\ proved' \subseteq Trees /\ labelled' \subseteq Trees /\ executed' \subseteq Messages \X Outcomes
      /\ submit' \in SubmitData /\ poll' \in PollData /\ handler' \in [Handlers -> SUBSET CopyData]
  <2>1. CASE Crash
    BY <2>1 DEF Crash, Typed, treeVars, IdleSubmit, IdlePoll, SubmitData, PollData
  <2>2. CASE ~Crash
    <3>1. UNCHANGED <<submit, poll, handler>>
      BY <2>2 DEF ProveTree, Settle, Execute, vars
    <3>2. proved' \subseteq Trees /\ labelled' \subseteq Trees
      <4>1. CASE \E t \in Trees : ProveTree(t)
        <5>1. PICK t \in Trees : /\ proved' = proved \cup {t}
                                /\ (labelled' = labelled \/ labelled' = labelled \cup {t})
          BY <4>1 DEF ProveTree
        <5> QED
          BY <5>1 DEF Typed
      <4>2. CASE ~\E t \in Trees : ProveTree(t)
        BY <2>2, <4>2 DEF Settle, Execute, vars, treeVars, Typed
      <4> QED
        BY <4>1, <4>2
    <3>3. executed' \subseteq Messages \X Outcomes
      <4>1. CASE \E m \in Messages, s \in Outcomes : Execute(m, s)
        <5>1. PICK m \in Messages, s \in Outcomes : executed' = executed \cup {<<m, s>>}
          BY <4>1 DEF Execute
        <5> QED
          BY <5>1 DEF Typed
      <4>2. CASE ~\E m \in Messages, s \in Outcomes : Execute(m, s)
        BY <2>2, <4>2 DEF ProveTree, Settle, vars, Typed
      <4> QED
        BY <4>1, <4>2
    <3> QED
      BY <3>1, <3>2, <3>3 DEF Typed
  <2> QED
    BY <2>1, <2>2
<1>8. Typed'
  BY <1>1, <1>4, <1>7 DEF Typed, tableVars
<1> QED
  BY <1>3, <1>5, <1>6, <1>8

LEMMA InitInv == Init => SubmissionInv
<1> SUFFICES ASSUME Init PROVE SubmissionInv
  OBVIOUS
<1>1. Typed
  BY InitTyped
<1>2. LoopIsSound /\ LoopHasTree
  BY DEF Init, IdleSubmit, LoopIsSound, LoopHasTree, Sending
<1>3. AskedIsPrimary
  BY DEF Init, AskedIsPrimary
<1>4. NewRow("Absent", {}).tx = {} /\ NewRow("Absent", {}).status = "Absent"
  BY DEF NewRow
<1>5. \A m \in Messages : row[m].tx = {} /\ row[m].status = "Absent"
  BY <1>4 DEF Init
<1>6. RowsAreTrue
  BY <1>5 DEF RowsAreTrue, IsTrue
<1>7. CopiesAreTrue
  BY DEF Init, IdlePoll, CopiesAreTrue, Copies
<1> QED
  BY <1>1, <1>2, <1>3, <1>6, <1>7 DEF SubmissionInv

LEMMA NextInv == SubmissionInv /\ [Next]_vars => SubmissionInv'
<1> SUFFICES ASSUME SubmissionInv, [Next]_vars PROVE SubmissionInv'
  OBVIOUS
<1>1. CASE SubmitTask
  BY <1>1, LoopKeepsInv, LoopWritesKeepInv, SendKeepsInv DEF SubmitTask
<1>2. CASE PollTask
  BY <1>2, PollKeepsInv, CopyWritesKeepInv DEF PollTask
<1>3. ASSUME NEW h \in Handlers,
             \/ \E m \in Messages, t \in Trees : RelayerWebhook(h, m, t)
             \/ \E m \in Messages, s \in Outcomes : ExecutionEvent(h, m, s)
             \/ SaveHandled(h)
      PROVE  SubmissionInv'
  BY <1>3, HandlerReadsKeepInv, CopyWritesKeepInv
<1>4. CASE \/ \E t \in Trees : ProveTree(t)
           \/ \E m \in Messages, t \in Trees : Settle(m, t)
           \/ \E m \in Messages, s \in Outcomes : Execute(m, s)
           \/ Crash
           \/ UNCHANGED vars
  BY <1>4, OutsideKeepsInv
<1> QED
  BY <1>1, <1>2, <1>3, <1>4 DEF Next

-----------------------------------------------------------------------------
(* Nothing recorded is lost, when a message has one tree.                  *)

LEMMA ExecutedStays == Next => \A m \in Messages : IsExecuted(m) => IsExecuted(m)'
<1> SUFFICES ASSUME Next PROVE executed \subseteq executed'
  BY DEF IsExecuted
<1>1. CASE SubmitTask \/ PollTask \/ Crash
  BY <1>1 DEF SubmitTask, PollTask, Crash, ListTrees, EndTree, NextTree, ReadShadow,
       WriteShadow, CheckKey, CheckStatus, SaveSkipped, SavePending, Send, SendFails,
       SaveSubmitted, ListPending, EndPoll, GetStatus, GetFails, SavePolled
<1>2. CASE ~(SubmitTask \/ PollTask \/ Crash)
  BY <1>2 DEF Next, ProveTree, RelayerWebhook, ExecutionEvent, SaveHandled, Settle, Execute
<1> QED
  BY <1>1, <1>2

(* The loop moves on: what it may next handle has not got anywhere.        *)
LEMMA LoopKeepsRecord ==
  ASSUME SubmissionInv, NEW i \in Messages, Recorded(i),
         ListTrees \/ EndTree \/ (\E t \in Trees : NextTree(t))
         \/ (\E m \in Messages : ReadShadow(m) \/ CheckKey(m) \/ CheckStatus(m))
  PROVE  Recorded(i)'
<1>1. UNCHANGED <<tableVars, poll, handler, relayer>>
  BY LoopTyped DEF SubmissionInv
<1>2. row' = row /\ byTx' = byTx /\ Copies' = Copies /\ relayer' = relayer
  BY <1>1 DEF tableVars, Copies
<1>3. submit \in SubmitData
  BY DEF SubmissionInv, Typed
<1>4. \/ submit'.pc \notin {"skip", "pending", "send", "save"}
      \/ /\ submit'.pc \in {"skip", "pending"} /\ submit'.msg = submit.msg
         /\ \A m \in submit.msg : row[m].status \in {"Absent", "Pending"}
  <2>1. CASE ListTrees \/ EndTree
    BY <1>3, <2>1 DEF ListTrees, EndTree, SubmitData
  <2>2. CASE \E t \in Trees : NextTree(t)
    BY <1>3, <2>2 DEF NextTree, SubmitData
  <2>3. CASE \E m \in Messages : ReadShadow(m) \/ CheckKey(m)
    BY <1>3, <2>3 DEF ReadShadow, CheckKey, SubmitData
  <2>4. ASSUME NEW m \in Messages, CheckStatus(m)
        PROVE  \/ submit'.pc \notin {"skip", "pending", "send", "save"}
               \/ /\ submit'.pc \in {"skip", "pending"} /\ submit'.msg = submit.msg
                  /\ \A n \in submit.msg : row[n].status \in {"Absent", "Pending"}
    <3>1. m \in submit.msg /\ \A n \in submit.msg : n = m
      BY <2>4 DEF CheckStatus, SubmissionInv, LoopIsSound
    <3>2. CASE submit' = [submit EXCEPT !.pc = "message", !.msg = {}]
      BY <1>3, <3>2 DEF SubmitData
    <3>3. CASE submit' # [submit EXCEPT !.pc = "message", !.msg = {}]
      <4>1. /\ submit' = [submit EXCEPT !.pc = IF m \in Ours THEN "pending" ELSE "skip"]
            /\ \A r \in RowOf(m) : r.status = "Pending"
        BY <2>4, <3>3 DEF CheckStatus
      <4>2. row[m].status \in {"Absent", "Pending"}
        BY <4>1 DEF RowOf
      <4> QED
        BY <1>3, <3>1, <4>1, <4>2 DEF SubmitData
    <3> QED
      BY <3>2, <3>3
  <2> QED
    BY <2>1, <2>2, <2>3, <2>4
<1>5. row[i].status \in {"Absent", "Pending"} => \A t \in Trees : <<i, t>> \notin byTx
  BY DEF SubmissionInv, RowsAreTrue, IsTrue, Recorded
<1> QED
  BY <1>2, <1>4, <1>5 DEF Recorded

LEMMA LoopWritesKeepRecord ==
  ASSUME OneTreeEach, SubmissionInv, NEW i \in Messages, Recorded(i), NEW m \in Messages,
         WriteShadow(m) \/ SaveSkipped(m) \/ SavePending(m) \/ SaveSubmitted(m)
  PROVE  Recorded(i)'
<1> USE DEF SubmissionInv
<1>1. /\ UNCHANGED <<poll, handler, relayer>>
      /\ m \in submit.msg
      /\ submit'.pc = (IF SavePending(m) THEN "send" ELSE "message")
      /\ submit'.msg = (IF SavePending(m) THEN submit.msg ELSE {})
  BY LoopWrites
<1>2. PICK r \in RowData :
        /\ Save(m, r)
        /\ \/ submit.pc = "shadow"  /\ r.status = "Deduplicated" /\ r.tx = {}
           \/ submit.pc = "skip"    /\ r.status = "Skipped" /\ r.tx = {}
           \/ submit.pc = "pending" /\ r.status = "Pending" /\ r.tx = {}
           \/ submit.pc = "save"    /\ r.status = "Submitted" /\ r.tx = submit.tree
  BY LoopWrites
<1>3. /\ row'[m].status = r.status /\ row'[m].tx = r.tx
      /\ \A j \in Messages : j # m => row'[j] = row[j]
      /\ byTx' = byTx \cup {<<m, t>> : t \in r.tx}
  BY <1>2, SaveEffect
<1>4. Copies' = Copies
  BY <1>1 DEF Copies
<1>5. \A n \in submit.msg : n = m
  BY <1>1 DEF LoopIsSound
<1>6. SavePending(m) => submit.pc = "pending"
  BY DEF SavePending
<1>7. CASE i # m
  BY <1>1, <1>3, <1>4, <1>5, <1>7 DEF Recorded
<1>8. CASE i = m
  <2>1. CASE submit.pc = "shadow"
    <3>1. PICK t \in submit.tree : m \in Ids(t) \ Primaries(t)
      BY <1>1, <2>1 DEF LoopIsSound, LoopHasTree
    <3>2. t \in Trees
      BY DEF Typed, SubmitData
    <3>3. \A u \in Trees : relayer[<<m, u>>] = "none" /\ <<m, u>> \notin byTx
      <4> SUFFICES ASSUME NEW u \in Trees, relayer[<<m, u>>] # "none" \/ <<m, u>> \in byTx
                   PROVE  FALSE
        OBVIOUS
      <4>1. m \in Primaries(u) /\ m \in Ids(u)
        BY BatchTypes DEF AskedIsPrimary
      <4> QED
        BY <3>1, <3>2, <4>1 DEF OneTreeEach
    <3>4. r.tx = {} /\ ~SavePending(m)
      BY <1>2, <1>6, <2>1
    <3> QED
      BY <1>1, <1>3, <1>4, <1>8, <3>3, <3>4 DEF Recorded
  <2>2. CASE submit.pc = "skip"
    <3>1. m \notin Ours
      <4>1. submit.tree # {}
        BY <2>2 DEF LoopHasTree, Sending
      <4> QED
        BY <1>1, <2>2, <4>1 DEF LoopIsSound
    <3>2. \A u \in Trees : relayer[<<m, u>>] = "none" /\ <<m, u>> \notin byTx
      BY <3>1 DEF AskedIsPrimary
    <3>3. r.tx = {} /\ ~SavePending(m)
      BY <1>2, <1>6, <2>2
    <3> QED
      BY <1>1, <1>3, <1>4, <1>8, <3>2, <3>3 DEF Recorded
  <2>3. CASE submit.pc = "pending"
    <3>1. r.tx = {} /\ r.status = "Pending"
      BY <1>2, <2>3
    <3> QED
      BY <1>1, <1>3, <1>4, <1>8, <2>3, <3>1 DEF Recorded
  <2>4. CASE submit.pc = "save"
    <3>1. r.tx = submit.tree /\ submit.tree # {} /\ ~SavePending(m)
      BY <1>2, <1>6, <2>4 DEF LoopHasTree, Sending
    <3> QED
      BY <1>1, <1>3, <1>4, <1>8, <3>1 DEF Recorded
  <2> QED
    BY <1>2, <2>1, <2>2, <2>3, <2>4
<1> QED
  BY <1>7, <1>8

LEMMA SendKeepsRecord ==
  ASSUME SubmissionInv, NEW i \in Messages, Recorded(i), NEW m \in Messages, Send(m) \/ SendFails(m)
  PROVE  Recorded(i)'
<1>1. /\ UNCHANGED <<tableVars, poll, handler>>
      /\ submit.pc = "send" /\ m \in submit.msg
      /\ \/ submit'.pc = "save" /\ submit'.msg = submit.msg
         \/ submit'.pc = "message" /\ submit'.msg = {}
      /\ \A j \in Messages, t \in Trees :
           relayer'[<<j, t>>] = relayer[<<j, t>>] \/ j = m
  BY SendEffect DEF SubmissionInv
<1>2. row' = row /\ byTx' = byTx /\ Copies' = Copies
  BY <1>1 DEF tableVars, Copies
<1> QED
  BY <1>1, <1>2 DEF Recorded

LEMMA PollKeepsRecord ==
  ASSUME SubmissionInv, NEW i \in Messages, Recorded(i),
         ListPending \/ EndPoll \/ (\E c \in poll.rows : GetStatus(c) \/ GetFails(c))
  PROVE  Recorded(i)'
<1>1. /\ UNCHANGED <<tableVars, submit, handler, relayer>>
      /\ \A c \in Copies' :
           \/ c \in Copies
           \/ c.row = row[c.msg] /\ NeedsPolling(c.msg) /\ c.msg \in Messages
           \/ \E d \in Copies, t \in Trees : c.msg = d.msg /\ t \in d.row.tx /\ c.row.tx = d.row.tx
  BY PollReads DEF SubmissionInv
<1>2. \A c \in Copies' : c.msg = i => c.row.tx # {}
  BY <1>1 DEF Recorded, NeedsPolling
<1> QED
  BY <1>1, <1>2 DEF Recorded, tableVars

LEMMA CopyWritesKeepRecord ==
  ASSUME SubmissionInv, NEW i \in Messages, Recorded(i),
         (\E c \in poll.write : SavePolled(c)) \/ (\E h \in Handlers : SaveHandled(h))
  PROVE  Recorded(i)'
<1> USE DEF SubmissionInv
<1>1. UNCHANGED <<submit, relayer>> /\ Copies' \subseteq Copies
  BY CopyWrites
<1>2. PICK c \in Copies : Save(c.msg, c.row)
  BY CopyWrites
<1>3. c.msg \in Messages /\ c.row \in RowData /\ IsTrue(c.msg, c.row)
  BY DEF Typed, Copies, PollData, CopyData, CopiesAreTrue
<1>4. /\ row'[c.msg].status = c.row.status /\ row'[c.msg].tx = c.row.tx
      /\ \A j \in Messages : j # c.msg => row'[j] = row[j]
      /\ byTx' = byTx \cup {<<c.msg, t>> : t \in c.row.tx}
  BY <1>2, <1>3, SaveEffect
<1>5. byTx' = byTx
  BY <1>3, <1>4 DEF IsTrue
<1>6. CASE i # c.msg
  BY <1>1, <1>4, <1>5, <1>6 DEF Recorded
<1>7. CASE i = c.msg
  <2>1. c.row.tx # {} /\ row'[i].tx # {}
    BY <1>4, <1>7 DEF Recorded
  <2>2. \E t \in Trees : <<i, t>> \in byTx
    BY <1>3, <1>7, <2>1 DEF IsTrue, RowData
  <2>3. ~(i \in submit.msg /\ submit.pc \in {"skip", "pending", "send", "save"})
    BY <2>2 DEF Recorded
  <2> QED
    BY <1>1, <2>1, <2>3 DEF Recorded
<1> QED
  BY <1>6, <1>7

LEMMA HandlerReadsKeepRecord ==
  ASSUME SubmissionInv, NEW i \in Messages, Recorded(i), ~IsExecuted(i), NEW h \in Handlers,
         (\E m \in Messages, t \in Trees : RelayerWebhook(h, m, t))
         \/ (\E m \in Messages, s \in Outcomes : ExecutionEvent(h, m, s))
  PROVE  Recorded(i)'
<1>1. /\ UNCHANGED <<tableVars, submit, poll, relayer>>
      /\ \A c \in Copies' :
           \/ c \in Copies
           \/ \E m \in Messages, t \in Trees :
                <<m, t>> \in byTx /\ c.msg = m /\ c.row.tx = row[m].tx
           \/ IsExecuted(c.msg)
  BY HandlerReads DEF SubmissionInv
<1>2. \A c \in Copies' : c.msg = i => c.row.tx # {}
  BY <1>1 DEF Recorded
<1> QED
  BY <1>1, <1>2 DEF Recorded, tableVars

LEMMA OutsideKeepsRecord ==
  ASSUME SubmissionInv, NEW i \in Messages, Recorded(i),
         (\E t \in Trees : ProveTree(t)) \/ (\E m \in Messages, t \in Trees : Settle(m, t))
         \/ (\E m \in Messages, s \in Outcomes : Execute(m, s)) \/ Crash \/ UNCHANGED vars
  PROVE  Recorded(i)'
<1>1. UNCHANGED tableVars
  BY DEF ProveTree, Settle, Execute, Crash, vars
<1>2. relayer \in [Messages \X Trees -> {"none", "live"} \cup Ends]
  BY DEF SubmissionInv, Typed
<1>3. \A t \in Trees : relayer'[<<i, t>>] # "none" => relayer[<<i, t>>] # "none"
  <2>1. CASE \E m \in Messages, t \in Trees : Settle(m, t)
    <3>1. PICK m \in Messages, t \in Trees : Settle(m, t)
      BY <2>1
    <3>2. PICK s \in Ends : relayer' = [relayer EXCEPT ![<<m, t>>] = s]
      BY <3>1 DEF Settle
    <3>3. relayer[<<m, t>>] = "live"
      BY <3>1 DEF Settle
    <3>4. \A u \in Trees : relayer'[<<i, u>>] = IF i = m /\ u = t THEN s ELSE relayer[<<i, u>>]
      BY <1>2, <3>2
    <3> QED
      BY <3>3, <3>4
  <2>2. CASE ~\E m \in Messages, t \in Trees : Settle(m, t)
    <3>1. UNCHANGED relayer
      BY <2>2 DEF ProveTree, Execute, Crash, vars
    <3> QED
      BY <3>1
  <2> QED
    BY <2>1, <2>2
<1>4. CASE Crash
  <2>1. /\ submit'.msg = {} /\ poll' = IdlePoll /\ \A h \in Handlers : handler'[h] = {}
    BY <1>4 DEF Crash, IdleSubmit
  <2>2. Copies' = {}
    BY <2>1 DEF Copies, IdlePoll
  <2> QED
    BY <1>1, <1>3, <2>1, <2>2 DEF Recorded, tableVars
<1>5. CASE ~Crash
  <2>1. UNCHANGED <<submit, poll, handler>>
    BY <1>5 DEF ProveTree, Settle, Execute, vars
  <2>2. Copies' = Copies
    BY <2>1 DEF Copies
  <2> QED
    BY <1>1, <1>3, <2>1, <2>2 DEF Recorded, tableVars
<1> QED
  BY <1>4, <1>5

LEMMA InitRecorded == Init => RecordedIsKept
<1> SUFFICES ASSUME Init PROVE RecordedIsKept
  OBVIOUS
<1>1. submit.msg = {} /\ byTx = {}
  BY DEF Init, IdleSubmit
<1>2. Copies = {}
  BY DEF Init, IdlePoll, Copies
<1>3. \A m \in Messages, t \in Trees : relayer[<<m, t>>] = "none"
  BY DEF Init
<1> QED
  BY <1>1, <1>2, <1>3 DEF Recorded, RecordedIsKept

LEMMA NextRecorded ==
  ASSUME OneTreeEach, SubmissionInv, RecordedIsKept, [Next]_vars
  PROVE  RecordedIsKept'
<1> SUFFICES ASSUME NEW i \in Messages, ~IsExecuted(i)' PROVE Recorded(i)'
  BY DEF RecordedIsKept
<1>1. ~IsExecuted(i)
  <2>1. CASE UNCHANGED vars
    BY <2>1 DEF vars, IsExecuted
  <2> QED
    BY <2>1, ExecutedStays
<1>2. Recorded(i)
  BY <1>1 DEF RecordedIsKept
<1>3. CASE SubmitTask
  BY <1>2, <1>3, LoopKeepsRecord, LoopWritesKeepRecord, SendKeepsRecord DEF SubmitTask
<1>4. CASE PollTask
  BY <1>2, <1>4, PollKeepsRecord, CopyWritesKeepRecord DEF PollTask
<1>5. ASSUME NEW h \in Handlers,
             \/ \E m \in Messages, t \in Trees : RelayerWebhook(h, m, t)
             \/ \E m \in Messages, s \in Outcomes : ExecutionEvent(h, m, s)
             \/ SaveHandled(h)
      PROVE  Recorded(i)'
  BY <1>1, <1>2, <1>5, HandlerReadsKeepRecord, CopyWritesKeepRecord
<1>6. CASE \/ \E t \in Trees : ProveTree(t)
           \/ \E m \in Messages, t \in Trees : Settle(m, t)
           \/ \E m \in Messages, s \in Outcomes : Execute(m, s)
           \/ Crash
           \/ UNCHANGED vars
  BY <1>2, <1>6, OutsideKeepsRecord
<1> QED
  BY <1>3, <1>4, <1>5, <1>6 DEF Next

-----------------------------------------------------------------------------
(* What readers rely on: the rows implement SubmissionRows.                *)

(* The loop has begun to settle or to submit a message.                    *)
Handling == {"shadow", "skip", "pending", "send", "save"}

(* An outcome that a row or a copy tells happened, and nothing takes a row *)
(* back to Absent.                                                         *)
OutcomesHappened ==
  /\ \A m \in Messages : row[m].exec # "None" => <<m, row[m].exec>> \in executed
  /\ \A c \in Copies : c.row.exec # "None" => <<c.msg, c.row.exec>> \in executed
  /\ \A c \in Copies : c.row.status # "Absent"
  /\ \A m \in Messages, t \in Trees : <<m, t>> \in byTx => row[m].status # "Absent"

(* What is kept of a message whose row tells no outcome: what the index    *)
(* has is in the row, every copy has a transaction or brings an outcome,   *)
(* and the loop handles nothing that got anywhere.  Here a message may be  *)
(* in several trees, which Recorded cannot allow.                          *)
Kept(m) ==
  /\ (\E t \in Trees : <<m, t>> \in byTx) => row[m].tx # {}
  /\ \A c \in Copies : c.msg = m => c.row.tx # {} \/ c.row.exec # "None"
  /\ m \in submit.msg /\ submit.pc \in Handling => row[m].status \in {"Absent", "Pending"}

UntoldIsKept == \A m \in Messages : row[m].exec = "None" => Kept(m)

(* What saving a row has to respect for the row to be one of those.        *)
IsSound(m, r) ==
  /\ r.status # "Absent"
  /\ r.exec # "None" => <<m, r.exec>> \in executed
  /\ r.status = "Confirmed" => \E t \in Trees : relayer[<<m, t>>] = "confirmed"
  /\ r.status = "Failed" => \E t \in Trees : relayer[<<m, t>>] = "failed"
  /\ row[m].exec = "None" /\ r.exec = "None" =>
       /\ r.status \in {"Absent", "Pending"} => row[m].status \in {"Absent", "Pending"}
       /\ row[m].status \in {"Skipped", "Deduplicated"} => r.status = row[m].status

(* The steps of the loop that save nothing keep all of this.               *)
LEMMA LoopKeepsKept ==
  ASSUME SubmissionInv, NEW i \in Messages, Kept(i),
         ListTrees \/ EndTree \/ (\E t \in Trees : NextTree(t))
         \/ (\E m \in Messages : ReadShadow(m) \/ CheckKey(m) \/ CheckStatus(m))
  PROVE  Kept(i)'
<1>1. UNCHANGED <<tableVars, poll, handler>>
  BY LoopTyped DEF SubmissionInv
<1>2. row' = row /\ byTx' = byTx /\ Copies' = Copies
  BY <1>1 DEF tableVars, Copies
<1>3. submit \in SubmitData /\ \A m, n \in submit.msg : m = n
  BY DEF SubmissionInv, Typed, LoopIsSound
<1>4. \/ submit'.pc \notin Handling
      \/ \A m \in submit'.msg : row[m].status \in {"Absent", "Pending"}
  <2>1. CASE ListTrees \/ EndTree
    BY <1>3, <2>1 DEF ListTrees, EndTree, SubmitData, Handling
  <2>2. CASE \E t \in Trees : NextTree(t)
    BY <1>3, <2>2 DEF NextTree, SubmitData, Handling
  <2>3. CASE \E m \in Messages : CheckKey(m)
    BY <1>3, <2>3 DEF CheckKey, SubmitData, Handling
  <2>4. ASSUME NEW m \in Messages, ReadShadow(m)
        PROVE  \/ submit'.pc \notin Handling
               \/ \A n \in submit'.msg : row[n].status \in {"Absent", "Pending"}
    <3>1. CASE \E r \in RowOf(m) : r.status # "Pending"
      BY <1>3, <2>4, <3>1 DEF ReadShadow, SubmitData, Handling
    <3>2. CASE ~\E r \in RowOf(m) : r.status # "Pending"
      <4>1. submit'.msg = {m}
        BY <1>3, <2>4, <3>2 DEF ReadShadow, SubmitData
      <4>2. row[m].status \in {"Absent", "Pending"}
        BY <3>2 DEF RowOf
      <4> QED
        BY <4>1, <4>2
    <3> QED
      BY <3>1, <3>2
  <2>5. ASSUME NEW m \in Messages, CheckStatus(m)
        PROVE  \/ submit'.pc \notin Handling
               \/ \A n \in submit'.msg : row[n].status \in {"Absent", "Pending"}
    <3>1. m \in submit.msg
      BY <2>5 DEF CheckStatus
    <3>2. CASE \E r \in RowOf(m) : r.status # "Pending"
      BY <1>3, <2>5, <3>2 DEF CheckStatus, SubmitData, Handling
    <3>3. CASE ~\E r \in RowOf(m) : r.status # "Pending"
      <4>1. submit'.msg \subseteq {m}
        BY <1>3, <2>5, <3>1 DEF CheckStatus, SubmitData
      <4>2. row[m].status \in {"Absent", "Pending"}
        BY <3>3 DEF RowOf
      <4> QED
        BY <4>1, <4>2
    <3> QED
      BY <3>2, <3>3
  <2> QED
    BY <2>1, <2>2, <2>3, <2>4, <2>5
<1> QED
  BY <1>2, <1>4 DEF Kept

(* What the loop saves is sound, and keeps what is kept.                   *)
LEMMA LoopWritesKeepKept ==
  ASSUME SubmissionInv, UntoldIsKept, NEW m \in Messages,
         WriteShadow(m) \/ SaveSkipped(m) \/ SavePending(m) \/ SaveSubmitted(m)
  PROVE  /\ \E r \in RowData : Save(m, r) /\ IsSound(m, r)
         /\ UntoldIsKept'
<1> USE DEF SubmissionInv
<1>1. /\ UNCHANGED <<poll, handler, relayer, executed>>
      /\ m \in submit.msg
      /\ submit'.pc = (IF SavePending(m) THEN "send" ELSE "message")
      /\ submit'.msg = (IF SavePending(m) THEN submit.msg ELSE {})
  BY LoopWrites
<1>2. PICK r \in RowData :
        /\ Save(m, r) /\ r.exec = "None"
        /\ \/ submit.pc = "shadow"  /\ r.status = "Deduplicated" /\ r.tx = {}
           \/ submit.pc = "skip"    /\ r.status = "Skipped" /\ r.tx = {}
           \/ submit.pc = "pending" /\ r.status = "Pending" /\ r.tx = {}
           \/ submit.pc = "save"    /\ r.status = "Submitted" /\ r.tx = submit.tree
  BY LoopWrites
<1>3. /\ row'[m].status = r.status /\ row'[m].tx = r.tx /\ row'[m].exec = row[m].exec
      /\ \A j \in Messages : j # m => row'[j] = row[j]
      /\ byTx' = byTx \cup {<<m, t>> : t \in r.tx}
  BY <1>2, SaveEffect
<1>4. Copies' = Copies
  BY <1>1 DEF Copies
<1>5. submit.pc \in Handling
  BY <1>2 DEF Handling
<1>6. row[m].exec = "None" => row[m].status \in {"Absent", "Pending"}
  BY <1>1, <1>5 DEF UntoldIsKept, Kept
<1>7. IsSound(m, r)
  BY <1>2, <1>6 DEF IsSound
<1>8. ASSUME NEW i \in Messages, row'[i].exec = "None" PROVE Kept(i)'
  <2>1. row[i].exec = "None" /\ Kept(i)
    BY <1>3, <1>8 DEF UntoldIsKept
  <2>2. \A n \in submit.msg : n = m
    BY <1>1 DEF LoopIsSound
  <2>3. CASE i # m
    BY <1>1, <1>3, <1>4, <2>1, <2>2, <2>3 DEF Kept
  <2>4. CASE i = m
    <3>1. \A t \in Trees : <<m, t>> \notin byTx
      BY <1>6, <2>1, <2>4 DEF Kept, RowsAreTrue, IsTrue
    <3>2. (\E t \in Trees : <<m, t>> \in byTx') => row'[m].tx # {}
      BY <1>3, <3>1
    <3>3. m \in submit'.msg /\ submit'.pc \in Handling => row'[m].status \in {"Absent", "Pending"}
      <4>1. SavePending(m) => submit.pc = "pending"
        BY DEF SavePending
      <4> QED
        BY <1>1, <1>2, <1>3, <4>1
    <3> QED
      BY <1>4, <2>1, <2>4, <3>2, <3>3 DEF Kept
  <2> QED
    BY <2>3, <2>4
<1>9. UntoldIsKept'
  BY <1>8 DEF UntoldIsKept
<1> QED
  BY <1>2, <1>7, <1>9

(* A copy that is saved is sound: it has a transaction, which the row then *)
(* has as well, or it brings an outcome.                                   *)
LEMMA CopyWritesKeepKept ==
  ASSUME SubmissionInv, OutcomesHappened, UntoldIsKept,
         (\E c \in poll.write : SavePolled(c)) \/ (\E h \in Handlers : SaveHandled(h))
  PROVE  /\ \E c \in Copies : /\ c.msg \in Messages /\ c.row \in RowData
                              /\ Save(c.msg, c.row) /\ IsSound(c.msg, c.row)
         /\ UntoldIsKept'
<1> USE DEF SubmissionInv
<1>1. UNCHANGED submit /\ Copies' \subseteq Copies
  BY CopyWrites
<1>2. PICK c \in Copies : Save(c.msg, c.row)
  BY CopyWrites
<1>3. c.msg \in Messages /\ c.row \in RowData /\ IsTrue(c.msg, c.row)
  BY DEF Typed, Copies, PollData, CopyData, CopiesAreTrue
<1> DEFINE m == c.msg
           r == c.row
<1>4. /\ row'[m].status = r.status /\ row'[m].tx = r.tx
      /\ row'[m].exec = IF row[m].exec = "None" THEN r.exec ELSE row[m].exec
      /\ \A j \in Messages : j # m => row'[j] = row[j]
      /\ byTx' = byTx \cup {<<m, t>> : t \in r.tx}
  BY <1>2, <1>3, SaveEffect
<1>5. byTx' = byTx
  BY <1>3, <1>4 DEF IsTrue
<1>6. row[m].exec = "None" /\ r.exec = "None" =>
        /\ r.tx # {} /\ r.status \in {"Submitted", "Confirmed", "Failed"}
        /\ row[m].tx # {} /\ row[m].status \in {"Submitted", "Confirmed", "Failed"}
  <2> SUFFICES ASSUME row[m].exec = "None", r.exec = "None"
               PROVE  /\ r.tx # {} /\ r.status \in {"Submitted", "Confirmed", "Failed"}
                      /\ row[m].tx # {} /\ row[m].status \in {"Submitted", "Confirmed", "Failed"}
    OBVIOUS
  <2>1. Kept(m)
    BY <1>3 DEF UntoldIsKept
  <2>2. r.tx # {}
    BY <2>1 DEF Kept
  <2>3. \E t \in Trees : <<m, t>> \in byTx
    BY <1>3, <2>2 DEF IsTrue, RowData
  <2>4. row[m].tx # {}
    BY <2>1, <2>3 DEF Kept
  <2>5. IsTrue(m, row[m])
    BY <1>3 DEF RowsAreTrue
  <2> QED
    BY <1>3, <2>2, <2>4, <2>5 DEF IsTrue
<1>7. IsSound(m, r)
  <2>1. r.status # "Absent" /\ (r.exec # "None" => <<m, r.exec>> \in executed)
    BY DEF OutcomesHappened
  <2>2. /\ r.status = "Confirmed" => \E t \in Trees : relayer[<<m, t>>] = "confirmed"
        /\ r.status = "Failed" => \E t \in Trees : relayer[<<m, t>>] = "failed"
    BY <1>3 DEF IsTrue
  <2> QED
    BY <1>6, <2>1, <2>2 DEF IsSound
<1>8. ASSUME NEW i \in Messages, row'[i].exec = "None" PROVE Kept(i)'
  <2>1. CASE i # m
    <3>1. row'[i] = row[i] /\ Kept(i)
      BY <1>4, <1>8, <2>1 DEF UntoldIsKept
    <3> QED
      BY <1>1, <1>5, <3>1 DEF Kept
  <2>2. CASE i = m
    <3>1. row[m].exec = "None" /\ r.exec = "None"
      BY <1>4, <1>8, <2>2
    <3>2. Kept(i) /\ row'[i].tx # {}
      BY <1>4, <1>6, <2>2, <3>1 DEF UntoldIsKept
    <3>3. ~(i \in submit.msg /\ submit.pc \in Handling)
      BY <1>6, <2>2, <3>1, <3>2 DEF Kept
    <3> QED
      BY <1>1, <3>2, <3>3 DEF Kept
  <2> QED
    BY <2>1, <2>2
<1>9. UntoldIsKept'
  BY <1>8 DEF UntoldIsKept
<1> QED
  BY <1>2, <1>3, <1>7, <1>9

(* Reading keeps what is kept.                                             *)
LEMMA PollKeepsKept ==
  ASSUME SubmissionInv, NEW i \in Messages, Kept(i),
         ListPending \/ EndPoll \/ (\E c \in poll.rows : GetStatus(c) \/ GetFails(c))
  PROVE  Kept(i)'
<1>1. /\ UNCHANGED <<tableVars, submit>>
      /\ \A c \in Copies' :
           \/ c \in Copies
           \/ c.row = row[c.msg] /\ NeedsPolling(c.msg) /\ c.msg \in Messages
           \/ \E d \in Copies, t \in Trees : c.msg = d.msg /\ t \in d.row.tx /\ c.row.tx = d.row.tx
  BY PollReads DEF SubmissionInv
<1>2. \A c \in Copies' : c.msg = i => c.row.tx # {} \/ c.row.exec # "None"
  BY <1>1 DEF Kept, NeedsPolling
<1> QED
  BY <1>1, <1>2 DEF Kept, tableVars

LEMMA HandlerReadsKeepKept ==
  ASSUME SubmissionInv, NEW i \in Messages, row[i].exec = "None", Kept(i), NEW h \in Handlers,
         (\E m \in Messages, t \in Trees : RelayerWebhook(h, m, t))
         \/ (\E m \in Messages, s \in Outcomes : ExecutionEvent(h, m, s))
  PROVE  Kept(i)'
<1>1. /\ UNCHANGED <<tableVars, submit>>
      /\ \A c \in Copies' :
           \/ c \in Copies
           \/ \E m \in Messages, t \in Trees :
                <<m, t>> \in byTx /\ c.msg = m /\ c.row.tx = row[m].tx
           \/ c.row.exec # "None"
  BY HandlerReads DEF SubmissionInv
<1>2. \A c \in Copies' : c.msg = i => c.row.tx # {} \/ c.row.exec # "None"
  BY <1>1 DEF Kept
<1> QED
  BY <1>1, <1>2 DEF Kept, tableVars

(* So does a call of the relayer, and all that happens outside.            *)
LEMMA OutsideKeepsKept ==
  ASSUME SubmissionInv, NEW i \in Messages, Kept(i),
         (\E m \in Messages : Send(m) \/ SendFails(m))
         \/ (\E t \in Trees : ProveTree(t)) \/ (\E m \in Messages, t \in Trees : Settle(m, t))
         \/ (\E m \in Messages, s \in Outcomes : Execute(m, s)) \/ Crash \/ UNCHANGED vars
  PROVE  Kept(i)'
<1>1. CASE \E m \in Messages : Send(m) \/ SendFails(m)
  <2>1. /\ UNCHANGED <<tableVars, poll, handler>> /\ submit.pc \in Handling
        /\ submit'.msg \subseteq submit.msg
    BY <1>1, SendEffect DEF SubmissionInv, Handling
  <2>2. Copies' = Copies
    BY <2>1 DEF Copies
  <2> QED
    BY <2>1, <2>2 DEF Kept, tableVars
<1>2. CASE Crash
  <2>1. /\ UNCHANGED tableVars /\ submit'.msg = {} /\ poll' = IdlePoll
        /\ \A h \in Handlers : handler'[h] = {}
    BY <1>2 DEF Crash, IdleSubmit
  <2>2. Copies' = {}
    BY <2>1 DEF Copies, IdlePoll
  <2> QED
    BY <2>1, <2>2 DEF Kept, tableVars
<1>3. CASE ~Crash /\ ~\E m \in Messages : Send(m) \/ SendFails(m)
  <2>1. UNCHANGED <<tableVars, submit, poll, handler>>
    BY <1>3 DEF ProveTree, Settle, Execute, vars
  <2>2. Copies' = Copies
    BY <2>1 DEF Copies
  <2> QED
    BY <2>1, <2>2 DEF Kept, tableVars
<1> QED
  BY <1>1, <1>2, <1>3

LEMMA NextKept ==
  ASSUME SubmissionInv, OutcomesHappened, UntoldIsKept, [Next]_vars
  PROVE  UntoldIsKept'
<1>1. CASE \E m \in Messages : WriteShadow(m) \/ SaveSkipped(m) \/ SavePending(m) \/ SaveSubmitted(m)
  BY <1>1, LoopWritesKeepKept
<1>2. CASE (\E c \in poll.write : SavePolled(c)) \/ (\E h \in Handlers : SaveHandled(h))
  BY <1>2, CopyWritesKeepKept
<1>3. ASSUME row' = row, \A i \in Messages : row[i].exec = "None" /\ Kept(i) => Kept(i)'
      PROVE  UntoldIsKept'
  BY <1>3 DEF UntoldIsKept
<1>4. CASE ListTrees \/ EndTree \/ (\E t \in Trees : NextTree(t))
           \/ (\E m \in Messages : ReadShadow(m) \/ CheckKey(m) \/ CheckStatus(m))
  <2>1. row' = row
    BY <1>4, LoopTyped DEF SubmissionInv, tableVars
  <2>2. \A i \in Messages : Kept(i) => Kept(i)'
    BY <1>4, LoopKeepsKept
  <2> QED
    BY <1>3, <2>1, <2>2
<1>5. CASE ListPending \/ EndPoll \/ (\E c \in poll.rows : GetStatus(c) \/ GetFails(c))
  <2>1. row' = row
    BY <1>5, PollReads DEF SubmissionInv, tableVars
  <2>2. \A i \in Messages : Kept(i) => Kept(i)'
    BY <1>5, PollKeepsKept
  <2> QED
    BY <1>3, <2>1, <2>2
<1>6. ASSUME NEW h \in Handlers,
             (\E m \in Messages, t \in Trees : RelayerWebhook(h, m, t))
             \/ (\E m \in Messages, s \in Outcomes : ExecutionEvent(h, m, s))
      PROVE  UntoldIsKept'
  <2>1. row' = row
    BY <1>6, HandlerReads DEF SubmissionInv, tableVars
  <2>2. \A i \in Messages : row[i].exec = "None" /\ Kept(i) => Kept(i)'
    BY <1>6, HandlerReadsKeepKept
  <2> QED
    BY <1>3, <2>1, <2>2
<1>7. CASE (\E m \in Messages : Send(m) \/ SendFails(m))
           \/ (\E t \in Trees : ProveTree(t)) \/ (\E m \in Messages, t \in Trees : Settle(m, t))
           \/ (\E m \in Messages, s \in Outcomes : Execute(m, s)) \/ Crash \/ UNCHANGED vars
  <2>1. row' = row
    BY <1>7 DEF Send, SendFails, ProveTree, Settle, Execute, Crash, vars, tableVars
  <2>2. \A i \in Messages : Kept(i) => Kept(i)'
    BY <1>7, OutsideKeepsKept
  <2> QED
    BY <1>3, <2>1, <2>2
<1> QED
  BY <1>1, <1>2, <1>4, <1>5, <1>6, <1>7 DEF Next, SubmitTask, PollTask

(* Every step saves one sound row, or none and lets the relayer and the    *)
(* destination chain go on.                                                *)
LEMMA SaveOrProceed ==
  ASSUME SubmissionInv, OutcomesHappened, UntoldIsKept, [Next]_vars
  PROVE  \/ /\ UNCHANGED tableVars /\ RelayerMoves /\ executed \subseteq executed'
         \/ /\ UNCHANGED <<relayer, executed>> /\ Copies' \subseteq Copies
            /\ \E m \in Messages, r \in RowData : Save(m, r) /\ IsSound(m, r)
<1>1. CASE \E m \in Messages : WriteShadow(m) \/ SaveSkipped(m) \/ SavePending(m) \/ SaveSubmitted(m)
  <2>1. UNCHANGED <<poll, handler, relayer, executed>>
    BY <1>1, LoopWrites DEF SubmissionInv
  <2>2. Copies' = Copies
    BY <2>1 DEF Copies
  <2> QED
    BY <1>1, <2>1, <2>2, LoopWritesKeepKept
<1>2. CASE (\E c \in poll.write : SavePolled(c)) \/ (\E h \in Handlers : SaveHandled(h))
  <2>1. UNCHANGED <<relayer, executed>> /\ Copies' \subseteq Copies
    BY <1>2, CopyWrites DEF SubmissionInv
  <2> QED
    BY <1>2, <2>1, CopyWritesKeepKept
<1>3. CASE ListTrees \/ EndTree \/ (\E t \in Trees : NextTree(t))
           \/ (\E m \in Messages : ReadShadow(m) \/ CheckKey(m) \/ CheckStatus(m))
  <2>1. UNCHANGED <<tableVars, relayer, executed>>
    BY <1>3, LoopTyped DEF SubmissionInv
  <2> QED
    BY <2>1 DEF RelayerMoves
<1>4. CASE ListPending \/ EndPoll \/ (\E c \in poll.rows : GetStatus(c) \/ GetFails(c))
  <2>1. UNCHANGED <<tableVars, relayer, executed>>
    BY <1>4, PollReads DEF SubmissionInv
  <2> QED
    BY <2>1 DEF RelayerMoves
<1>5. ASSUME NEW h \in Handlers,
             (\E m \in Messages, t \in Trees : RelayerWebhook(h, m, t))
             \/ (\E m \in Messages, s \in Outcomes : ExecutionEvent(h, m, s))
      PROVE  UNCHANGED tableVars /\ RelayerMoves /\ executed \subseteq executed'
  <2>1. UNCHANGED <<tableVars, relayer, executed>>
    BY <1>5, HandlerReads DEF SubmissionInv
  <2> QED
    BY <2>1 DEF RelayerMoves
<1>6. ASSUME NEW m \in Messages, Send(m) \/ SendFails(m)
      PROVE  UNCHANGED tableVars /\ RelayerMoves /\ executed \subseteq executed'
  BY <1>6, SendEffect DEF SubmissionInv, RelayerMoves, Ends
<1>7. ASSUME NEW m \in Messages, NEW t \in Trees, Settle(m, t)
      PROVE  UNCHANGED tableVars /\ RelayerMoves /\ executed \subseteq executed'
  <2>1. relayer \in [Messages \X Trees -> {"none", "live"} \cup Ends] /\ relayer[<<m, t>>] = "live"
    BY <1>7 DEF Settle, SubmissionInv, Typed
  <2>2. PICK s \in Ends : relayer' = [relayer EXCEPT ![<<m, t>>] = s]
    BY <1>7 DEF Settle
  <2>3. UNCHANGED <<tableVars, executed>>
    BY <1>7 DEF Settle
  <2> QED
    BY <2>1, <2>2, <2>3 DEF RelayerMoves, Ends
<1>8. CASE (\E t \in Trees : ProveTree(t)) \/ (\E m \in Messages, s \in Outcomes : Execute(m, s))
           \/ Crash \/ UNCHANGED vars
  <2>1. UNCHANGED <<tableVars, relayer>> /\ executed \subseteq executed'
    BY <1>8 DEF ProveTree, Execute, Crash, vars
  <2> QED
    BY <2>1 DEF RelayerMoves
<1> QED
  BY <1>1, <1>2, <1>3, <1>4, <1>5, <1>6, <1>7, <1>8 DEF Next, SubmitTask, PollTask

LEMMA InitKept == Init => OutcomesHappened /\ UntoldIsKept
<1> SUFFICES ASSUME Init PROVE OutcomesHappened /\ UntoldIsKept
  OBVIOUS
<1>1. byTx = {} /\ submit.msg = {} /\ Copies = {}
  BY DEF Init, IdleSubmit, IdlePoll, Copies
<1>2. \A m \in Messages : row[m].exec = "None"
  BY DEF Init, NewRow
<1> QED
  BY <1>1, <1>2 DEF OutcomesHappened, UntoldIsKept, Kept

(* Outcomes stay told of what happened.                                    *)
LEMMA NextHappened ==
  ASSUME SubmissionInv, OutcomesHappened, UntoldIsKept, [Next]_vars
  PROVE  OutcomesHappened'
<1> USE DEF SubmissionInv
<1>1. CASE /\ UNCHANGED <<relayer, executed>> /\ Copies' \subseteq Copies
           /\ \E m \in Messages, r \in RowData : Save(m, r) /\ IsSound(m, r)
  <2>1. PICK m \in Messages, r \in RowData : Save(m, r) /\ IsSound(m, r)
    BY <1>1
  <2>2. /\ row'[m].status = r.status
        /\ row'[m].exec = IF row[m].exec = "None" THEN r.exec ELSE row[m].exec
        /\ \A i \in Messages : i # m => row'[i] = row[i]
        /\ byTx' = byTx \cup {<<m, t>> : t \in r.tx}
    BY <2>1, SaveEffect
  <2>3. ASSUME NEW i \in Messages
        PROVE  /\ row'[i].exec # "None" => <<i, row'[i].exec>> \in executed
               /\ \A t \in Trees : <<i, t>> \in byTx' => row'[i].status # "Absent"
    <3>1. CASE i = m
      BY <2>1, <2>2, <3>1 DEF IsSound, OutcomesHappened
    <3>2. CASE i # m
      BY <2>2, <3>2 DEF OutcomesHappened
    <3> QED
      BY <3>1, <3>2
  <2> QED
    BY <1>1, <2>3 DEF OutcomesHappened
<1>2. CASE UNCHANGED tableVars /\ executed \subseteq executed'
  <2>1. row' = row /\ byTx' = byTx
    BY <1>2 DEF tableVars
  <2>2. \A c \in Copies' : /\ c.row.status # "Absent"
                           /\ c.row.exec # "None" => <<c.msg, c.row.exec>> \in executed
    <3>1. \A c \in Copies : /\ c.row.status # "Absent"
                            /\ c.row.exec # "None" => <<c.msg, c.row.exec>> \in executed
      BY DEF OutcomesHappened
    <3>2. CASE Copies' \subseteq Copies
      BY <3>1, <3>2
    <3>3. CASE ListPending \/ EndPoll \/ (\E c \in poll.rows : GetStatus(c) \/ GetFails(c))
      <4> SUFFICES ASSUME NEW c \in Copies'
                   PROVE  /\ c.row.status # "Absent"
                          /\ c.row.exec # "None" => <<c.msg, c.row.exec>> \in executed
        OBVIOUS
      <4>1. CASE c \in Copies
        BY <3>1, <4>1
      <4>2. CASE c.row = row[c.msg] /\ NeedsPolling(c.msg) /\ c.msg \in Messages
        <5>1. IsTrue(c.msg, c.row) /\ c.row.tx # {}
          BY <4>2 DEF RowsAreTrue, NeedsPolling
        <5> QED
          BY <4>2, <5>1 DEF IsTrue, OutcomesHappened
      <4>3. ASSUME NEW d \in Copies, NEW t \in Trees, c.msg = d.msg, c.row.exec = d.row.exec,
                   c.row.status = Told(d.row.status, relayer[<<d.msg, t>>])
            PROVE  /\ c.row.status # "Absent"
                   /\ c.row.exec # "None" => <<c.msg, c.row.exec>> \in executed
        <5>1. c.row.status \in {d.row.status, "Confirmed", "Failed"}
          BY <4>3 DEF Told
        <5> QED
          BY <3>1, <4>3, <5>1
      <4> QED
        BY <3>3, <4>1, <4>2, <4>3, PollReads
    <3>4. ASSUME NEW h \in Handlers,
                 (\E m \in Messages, t \in Trees : RelayerWebhook(h, m, t))
                 \/ (\E m \in Messages, s \in Outcomes : ExecutionEvent(h, m, s)),
                 NEW c \in Copies'
          PROVE  /\ c.row.status # "Absent"
                 /\ c.row.exec # "None" => <<c.msg, c.row.exec>> \in executed
      <4>1. CASE c \in Copies
        BY <3>1, <4>1
      <4>2. ASSUME NEW m \in Messages, NEW t \in Trees, <<m, t>> \in byTx, c.msg = m,
                   c.row.exec = row[m].exec,
                   NEW told, c.row.status = UpdateStatus(row[m].status, told)
            PROVE  /\ c.row.status # "Absent"
                   /\ c.row.exec # "None" => <<c.msg, c.row.exec>> \in executed
        <5>1. row[m].status # "Absent" /\ (row[m].exec # "None" => <<m, row[m].exec>> \in executed)
          BY <4>2 DEF OutcomesHappened
        <5>2. c.row.status = row[m].status \/ c.row.status \in Settled \cup {"Submitted"}
          BY <4>2 DEF UpdateStatus
        <5> QED
          BY <4>2, <5>1, <5>2 DEF Settled
      <4> QED
        BY <3>4, <4>1, <4>2, HandlerReads
    <3>5. CASE /\ ~ListPending /\ ~EndPoll /\ ~\E c \in poll.rows : GetStatus(c) \/ GetFails(c)
               /\ ~\E h \in Handlers :
                     \/ \E m \in Messages, t \in Trees : RelayerWebhook(h, m, t)
                     \/ \E m \in Messages, s \in Outcomes : ExecutionEvent(h, m, s)
      <4>1. CASE (\E c \in poll.write : SavePolled(c)) \/ (\E h \in Handlers : SaveHandled(h))
        BY <3>2, <4>1, CopyWrites
      <4>2. CASE Crash
        <5>1. poll' = IdlePoll /\ \A h \in Handlers : handler'[h] = {}
          BY <4>2 DEF Crash
        <5> QED
          BY <5>1 DEF Copies, IdlePoll
      <4>3. CASE /\ ~Crash
                 /\ ~((\E c \in poll.write : SavePolled(c)) \/ (\E h \in Handlers : SaveHandled(h)))
        <5>1. UNCHANGED <<poll, handler>>
          BY <3>5, <4>3 DEF Next, SubmitTask, PollTask, ListTrees, EndTree, NextTree, ReadShadow,
               WriteShadow, CheckKey, CheckStatus, SaveSkipped, SavePending, Send, SendFails,
               SaveSubmitted, ProveTree, Settle, Execute, vars
        <5> QED
          BY <3>2, <5>1 DEF Copies
      <4> QED
        BY <4>1, <4>2, <4>3
    <3> QED
      BY <3>3, <3>4, <3>5
  <2> QED
    BY <1>2, <2>1, <2>2 DEF OutcomesHappened
<1> QED
  BY <1>1, <1>2, SaveOrProceed

(* The rows as SubmissionRows sees them.                                   *)
RowStates   == [m \in Messages |-> row[m].status]
RowOutcomes == [m \in Messages |-> row[m].exec]
EndsSoFar   == {e \in Messages \X Ends : \E t \in Trees : relayer[<<e[1], t>>] = e[2]}

(* A sound save is one of SubmissionRows.                                  *)
LEMMA SaveImplementsRows ==
  ASSUME SubmissionInv, OutcomesHappened, NEW m \in Messages, NEW r \in RowData,
         Save(m, r), IsSound(m, r), UNCHANGED <<relayer, executed>>
  PROVE  Rows!Next
<1>1. Typed
  BY DEF SubmissionInv
<1>2. /\ r.status \in {"Absent", "Pending", "Skipped", "Deduplicated", "Submitted", "Confirmed",
                       "Failed"}
      /\ row[m].exec \in {"None", "Success", "Failure"} /\ r.exec \in {"None", "Success", "Failure"}
  BY <1>1, StatusNames DEF Typed, RowData, Outcomes
<1>3. PICK s \in {"Absent", "Pending", "Skipped", "Deduplicated", "Submitted", "Confirmed",
                 "Failed"} : s = r.status
  BY <1>2
<1>4. PICK x \in {"None", "Success", "Failure"} :
        x = IF row[m].exec = "None" THEN r.exec ELSE row[m].exec
  BY <1>2
<1>5. /\ row' \in [Messages -> RowData] /\ row'[m].status = s /\ row'[m].exec = x
      /\ \A i \in Messages : i # m => row'[i] = row[i]
  BY <1>1, <1>3, <1>4, SaveEffect
<1>6. /\ RowStates' = [RowStates EXCEPT ![m] = s]
      /\ RowOutcomes' = [RowOutcomes EXCEPT ![m] = x]
      /\ RowStates[m] = row[m].status /\ RowOutcomes[m] = row[m].exec
  BY <1>5 DEF RowStates, RowOutcomes
<1>7. EndsSoFar' = EndsSoFar
  BY DEF EndsSoFar
<1>8. /\ s = "Confirmed" => <<m, "confirmed">> \in EndsSoFar
      /\ s = "Failed" => <<m, "failed">> \in EndsSoFar
      /\ s # "Absent"
      /\ row[m].exec # "None" => x = row[m].exec
      /\ row[m].exec = "None" /\ x # "None" => <<m, x>> \in executed
  BY <1>3, <1>4 DEF IsSound, EndsSoFar, Ends
<1>9. /\ x = "None" /\ s \in {"Absent", "Pending"} => row[m].status \in {"Absent", "Pending"}
      /\ x = "None" /\ row[m].status \in {"Skipped", "Deduplicated"} => s = row[m].status
  BY <1>3, <1>4 DEF IsSound
<1>10. Rows!Save(m, s, x)
  BY <1>6, <1>7, <1>8, <1>9
  DEF Rows!Save, Rows!Fresh, Rows!Left, RowStates, RowOutcomes, EndsSoFar
<1>11. s \in Rows!Fresh \cup Rows!Left \cup {"Submitted", "Confirmed", "Failed"}
  BY DEF Rows!Fresh, Rows!Left
<1> QED
  BY <1>10, <1>11 DEF Rows!Next

LEMMA ProceedImplementsRows ==
  ASSUME SubmissionInv, UNCHANGED tableVars, RelayerMoves, executed \subseteq executed'
  PROVE  Rows!Next
<1>1. RowStates' = RowStates /\ RowOutcomes' = RowOutcomes
  BY DEF tableVars, RowStates, RowOutcomes
<1>2. EndsSoFar \subseteq EndsSoFar'
  <2> SUFFICES ASSUME NEW e \in EndsSoFar PROVE e \in EndsSoFar'
    OBVIOUS
  <2>1. e \in Messages \X Ends
    BY DEF EndsSoFar
  <2>2. PICK t \in Trees : relayer[<<e[1], t>>] = e[2]
    BY DEF EndsSoFar
  <2>3. e[1] \in Messages /\ e[2] \in Ends
    BY <2>1
  <2>4. relayer'[<<e[1], t>>] = e[2]
    BY <2>2, <2>3 DEF RelayerMoves
  <2> QED
    BY <2>1, <2>4 DEF EndsSoFar
<1>3. Rows!Proceed
  BY <1>1, <1>2 DEF Rows!Proceed, RowStates, RowOutcomes, EndsSoFar
<1> QED
  BY <1>3 DEF Rows!Next

-----------------------------------------------------------------------------
(* Theorems.                                                               *)

(* The invariant holds in every behaviour.                                 *)
THEOREM SubmissionInvariant == Spec => []SubmissionInv
<1> QED
  BY InitInv, NextInv, PTL DEF Spec

(* One message of those that share a leaf is put before the relayer,       *)
(* however often a batch is retried and whatever fails (partition_by_leaf, *)
(* submit_single_message).                                                 *)
THEOREM LeavesAreSubmittedOnce == Spec => []OneTransactionPerLeaf
<1>1. SubmissionInv => OneTransactionPerLeaf
  <2> SUFFICES ASSUME SubmissionInv, NEW t \in Trees, NEW m \in Ids(t), NEW n \in Ids(t),
                      relayer[<<m, t>>] # "none", relayer[<<n, t>>] # "none", Leaf[m] = Leaf[n]
               PROVE  m = n
    BY DEF OneTransactionPerLeaf
  <2>1. m \in Messages /\ n \in Messages
    BY BatchTypes
  <2>2. m \in Primaries(t) /\ n \in Primaries(t)
    BY <2>1 DEF SubmissionInv, AskedIsPrimary
  <2> QED
    BY <2>2, PrimariesDiffer
<1> QED
  BY <1>1, SubmissionInvariant, PTL

(* A row that says Confirmed or Failed has a transaction that ended so:    *)
(* no copy that was read earlier and no late webhook makes up an outcome   *)
(* (save_submission_status, update_status_from_response).                  *)
THEOREM OutcomesAreTrue == Spec => []OutcomeIsTrue
<1>1. SubmissionInv => OutcomeIsTrue
  BY DEF SubmissionInv, RowsAreTrue, IsTrue, OutcomeIsTrue
<1> QED
  BY <1>1, SubmissionInvariant, PTL

(* The message whose transaction the relayer has, and whose row does not   *)
(* name it, is Pending and will be asked for again, when no message is in  *)
(* two trees (submit_single_message stores Pending before it calls).       *)
THEOREM UnrecordedAreRetried == OneTreeEach => (Spec => []UnrecordedIsRetried)
<1> SUFFICES ASSUME OneTreeEach PROVE Spec => []UnrecordedIsRetried
  OBVIOUS
<1>1. SubmissionInv /\ RecordedIsKept /\ [Next]_vars => RecordedIsKept'
  BY NextRecorded
<1>2. SubmissionInv /\ RecordedIsKept => UnrecordedIsRetried
  <2> SUFFICES ASSUME SubmissionInv, RecordedIsKept, NEW m \in Messages, NEW t \in Trees,
                      relayer[<<m, t>>] # "none", t \notin row[m].tx, ~IsExecuted(m)
               PROVE  row[m].status = "Pending"
    BY DEF UnrecordedIsRetried
  <2>1. Recorded(m)
    BY DEF RecordedIsKept
  <2>2. row[m].tx = {}
    <3> SUFFICES ASSUME NEW u \in row[m].tx PROVE FALSE
      OBVIOUS
    <3>1. u \in Trees /\ <<m, u>> \in byTx
      BY DEF SubmissionInv, Typed, RowData, RowsAreTrue, IsTrue
    <3>2. m \in Primaries(t) /\ m \in Primaries(u)
      BY <3>1 DEF SubmissionInv, AskedIsPrimary
    <3>3. m \in Ids(t) /\ m \in Ids(u)
      BY <3>1, <3>2, BatchTypes
    <3> QED
      BY <3>1, <3>3 DEF OneTreeEach
  <2> QED
    BY <2>1, <2>2 DEF Recorded
<1>3. Spec => []RecordedIsKept
  BY <1>1, InitRecorded, SubmissionInvariant, PTL DEF Spec
<1> QED
  BY <1>2, <1>3, SubmissionInvariant, PTL

(* The rows keep to what their readers rely on, in several trees or one,   *)
(* whatever interleaves: a row that says how a transaction ended is right, *)
(* an outcome that was told stays, and until one is told no old copy makes *)
(* a message new again that was handed to the relayer or left to another   *)
(* (save_submission_status and its callers).                               *)
THEOREM RowsAreKept == Spec => RowsSpec
<1>1. Init => Rows!Init
  <2> SUFFICES ASSUME Init PROVE Rows!Init
    OBVIOUS
  <2>1. \A m \in Messages : row[m].status = "Absent" /\ row[m].exec = "None"
    BY DEF Init, NewRow
  <2>2. \A m \in Messages, t \in Trees : relayer[<<m, t>>] = "none"
    BY DEF Init
  <2>3. {e \in Messages \X Ends : \E t \in Trees : relayer[<<e[1], t>>] = e[2]} = {}
    BY <2>2 DEF Ends
  <2>4. executed = {}
    BY DEF Init
  <2> QED
    BY <2>1, <2>3, <2>4 DEF Rows!Init
<1>2. SubmissionInv /\ OutcomesHappened /\ UntoldIsKept /\ [Next]_vars
        => OutcomesHappened' /\ UntoldIsKept'
  BY NextHappened, NextKept
<1>3. SubmissionInv /\ OutcomesHappened /\ UntoldIsKept /\ [Next]_vars => [Rows!Next]_(Rows!vars)
  <2> SUFFICES ASSUME SubmissionInv, OutcomesHappened, UntoldIsKept, [Next]_vars
               PROVE  Rows!Next
    OBVIOUS
  <2> QED
    BY SaveOrProceed, SaveImplementsRows, ProceedImplementsRows
<1>4. Spec => [](OutcomesHappened /\ UntoldIsKept)
  BY <1>2, InitKept, SubmissionInvariant, PTL DEF Spec
<1> QED
  BY <1>1, <1>3, <1>4, SubmissionInvariant, PTL DEF Spec, RowsSpec, Rows!Spec

=============================================================================
