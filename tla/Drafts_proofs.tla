---------------------------- MODULE Drafts_proofs ----------------------------
(***************************************************************************)
(* Proofs about DraftSync, for any number of pushes, texts, ticks and      *)
(* failures: types and the command lock, and that neither a save nor an    *)
(* import loses an edit its author has not seen.                           *)
(***************************************************************************)
EXTENDS DraftSync, TLAPS

USE DraftAssumption

-----------------------------------------------------------------------------
(* Types. *)

Copy(n) == [uid : 1..(n - 1), text : 1..MaxTexts, at : 0..MaxClock]
PushRec == [pc : {"idle", "started", "waiting", "appended", "removed", "leaving"},
            text : 0..MaxTexts, old : Nat, uid : Nat]
RowRec  == [status : {"none", "draft", "queued", "failed", "sent", "deleted"}, rev : Nat,
            text : 0..MaxTexts, sync : {"dirty", "synced"}, uid : Nat, at : 0..MaxClock]
SlotRec == [st : {"empty", "pending", "fired"}, at : 0..MaxClock]

\* The parts of the state, each by itself.
RowTypes ==
  /\ row \in RowRec /\ editor \in [rev : Nat, text : 0..MaxTexts]
  /\ row.status # "none" => row.text # 0
  /\ apart \subseteq 1..MaxTexts
TimeTypes ==
  /\ clock \in 0..MaxClock /\ texts \in 0..MaxTexts
  /\ slot \in SlotRec /\ loose \subseteq 0..MaxClock
PushTypes ==
  /\ push \in [Pushes -> PushRec]
  /\ \A p \in Pushes : push[p].pc \in {"waiting", "appended", "removed"} => push[p].text # 0
ProviderTypes ==
  /\ nextUid \in Nat \ {0} /\ cursor \in 0..(nextUid - 1) /\ uidPlus \in BOOLEAN
  /\ copies \subseteq Copy(nextUid)
  /\ import.pc \in {"idle", "running"} /\ import.last \in 0..(nextUid - 1)
  /\ import.todo \subseteq Copy(nextUid)

\* The command lock and who is past it.
LockInv ==
  /\ \A p \in Pushes : lock = p <=> push[p].pc \in {"appended", "removed"}
  /\ lock = "import" <=> import.pc = "running"
  /\ import.todo # {} => import.pc = "running"

LEMMA TypesImply == RowTypes /\ TimeTypes /\ PushTypes /\ ProviderTypes /\ LockInv => TypeOK
<1> SUFFICES ASSUME RowTypes, TimeTypes, PushTypes, ProviderTypes, LockInv PROVE TypeOK
  OBVIOUS
<1>1. \A c \in copies : c \in [uid : 1..(nextUid - 1), text : 1..MaxTexts, at : 0..MaxClock]
  BY DEF ProviderTypes, Copy
<1>2. cursor < nextUid /\ uidPlus \in BOOLEAN
  BY DEF ProviderTypes
<1> QED
  BY <1>1, <1>2 DEF RowTypes, TimeTypes, PushTypes, LockInv, RowRec, SlotRec, PushRec, TypeOK

LEMMA TypesInitial == Init => RowTypes /\ TimeTypes /\ PushTypes /\ ProviderTypes /\ LockInv
<1> SUFFICES ASSUME Init PROVE RowTypes /\ TimeTypes /\ PushTypes /\ ProviderTypes /\ LockInv
  OBVIOUS
<1>1. RowTypes /\ TimeTypes
  BY DEF Init, RowTypes, TimeTypes, RowRec, SlotRec, NoRow, NoTimer
<1>2. PushTypes /\ LockInv
  BY DEF Init, PushTypes, LockInv, PushRec, IdlePush, NoImport
<1>3. ProviderTypes
  BY DEF Init, ProviderTypes, NoImport
<1> QED
  BY <1>1, <1>2, <1>3

-----------------------------------------------------------------------------
(* Each part keeps its type. *)

LEMMA RowTyped == TimeTypes /\ PushTypes /\ ProviderTypes /\ RowTypes /\ [Next]_vars => RowTypes'
<1> SUFFICES ASSUME TimeTypes, PushTypes, ProviderTypes, RowTypes, [Next]_vars PROVE RowTypes'
  OBVIOUS
<1> USE DEF RowTypes, TimeTypes, RowRec
<1>1. CASE Create
  BY <1>1 DEF Create, Schedule, providerVars, observers
<1>2. CASE Open
  BY <1>2 DEF Open, providerVars, timerVars, observers
<1>3. CASE Save
  <2>1. /\ row' = [row EXCEPT !.rev = @ + 1, !.text = texts', !.sync = "dirty", !.at = clock]
        /\ editor' = [rev |-> row'.rev, text |-> texts'] /\ apart' = apart
        /\ texts' \in 1..MaxTexts
    BY <1>3 DEF Save
  <2>2. row.rev + 1 \in Nat /\ texts' \in 0..MaxTexts /\ texts' # 0
    BY <2>1
  <2>3. row' \in RowRec /\ row'.text = texts'
    BY <2>1, <2>2
  <2> QED
    BY <2>1, <2>2, <2>3
<1>4. CASE Delete
  BY <1>4 DEF Delete, providerVars, observers, NoTimer
<1>5. CASE Send
  BY <1>5 DEF Send, providerVars, timerVars, observers, Editable
<1>6. CASE SendFails
  BY <1>6 DEF SendFails, providerVars, timerVars, observers
<1>7. CASE SendDone
  BY <1>7 DEF SendDone, providerVars, timerVars, observers, NoDrop
<1>8. ASSUME NEW p \in Pushes, Commit(p) PROVE RowTypes'
  <2>1. push[p] \in PushRec
    BY DEF PushTypes
  <2> QED
    BY <1>8, <2>1 DEF Commit, Uploaded, PushRec, observers
<1>9. CASE ImportOne
  <2>1. PICK c \in import.todo : ReconcileRemoteDraft(c)
    BY <1>9 DEF ImportOne
  <2>2. c \in Copy(nextUid) /\ editor' = editor
    BY <1>9 DEF ImportOne, ProviderTypes
  <2>3. row' \in {row, Taken(c)} /\ apart' \in {apart, apart \cup {c.text}}
    BY <2>1 DEF ReconcileRemoteDraft
  <2>4. c.uid \in Nat /\ c.text \in 1..MaxTexts /\ c.at \in 0..MaxClock
    BY <2>2 DEF Copy, ProviderTypes
  <2>5. Taken(c) \in RowRec /\ Taken(c).text # 0
    <3>1. row.rev + 1 \in Nat /\ c.text \in 0..MaxTexts /\ c.text # 0
      BY <2>4
    <3> QED
      BY <2>4, <3>1 DEF Taken
  <2> QED
    BY <2>2, <2>3, <2>4, <2>5, row.status # "none" => row.text # 0 DEF Taken, Copy
<1>10. ASSUME NEW p \in Pushes, Fire(p) \/ Read(p) \/ Append(p) \/ RemoveOld(p) \/
     RemoveOldFails(p) \/ PushFails(p) \/ Leave(p) PROVE RowTypes'
  <2>1. UNCHANGED <<row, editor, apart>>
    BY <1>10 DEF Fire, providerVars, observers, Read, timerVars, Editable, Append, RemoveOld,
         RemoveOldFails, PushFails, Leave, IdlePush, NoTimer
  <2> QED
    BY <2>1
<1>11. CASE DropCopy \/ DropFails \/ BeginImport \/ ImportFails \/ EndImport \/ CutImport \/
     OtherEdit \/ Tick \/ Restart \/ UNCHANGED vars
  <2>1. UNCHANGED <<row, editor, apart>>
    BY <1>11 DEF DropCopy, timerVars, observers, NoDrop, DropFails, providerVars, BeginImport,
         ImportFails, EndImport, NoImport, CutImport, OtherEdit, Tick, Restart, IdlePush,
         NoTimer, vars
  <2> QED
    BY <2>1
<1> QED
  BY <1>1, <1>2, <1>3, <1>4, <1>5, <1>6, <1>7, <1>8, <1>9, <1>10, <1>11 DEF Next, UserStep,
       PushStep, ImportStep

LEMMA TimeTyped == TimeTypes /\ [Next]_vars => TimeTypes'
<1> SUFFICES ASSUME TimeTypes, [Next]_vars PROVE TimeTypes'
  OBVIOUS
<1> USE DEF TimeTypes, SlotRec
<1>1. CASE Create
  BY <1>1 DEF Create, Schedule, providerVars, observers
<1>2. CASE Save
  BY <1>2 DEF Save, Schedule, providerVars, Editable
<1>3. CASE Delete
  BY <1>3 DEF Delete, providerVars, observers, NoTimer
<1>4. ASSUME NEW p \in Pushes, Fire(p) PROVE TimeTypes'
  BY <1>4 DEF Fire, providerVars, observers
<1>5. ASSUME NEW p \in Pushes, Leave(p) PROVE TimeTypes'
  <2>1. slot.at \in 0..MaxClock /\ loose' \in {loose, loose \cup {slot.at}}
    BY <1>5 DEF Leave
  <2> QED
    BY <1>5, <2>1, 0 \in 0..MaxClock DEF Leave, NoTimer
<1>6. CASE OtherEdit
  BY <1>6 DEF OtherEdit, timerVars
<1>7. CASE Tick
  BY <1>7 DEF Tick, providerVars, timerVars, observers
<1>8. CASE Restart
  BY <1>8 DEF Restart, providerVars, IdlePush, NoImport, NoDrop, NoTimer
<1>9. ASSUME NEW p \in Pushes, Read(p) \/ Append(p) \/ RemoveOld(p) \/ RemoveOldFails(p) \/
     Commit(p) \/ PushFails(p) PROVE TimeTypes'
  <2>1. UNCHANGED <<clock, texts, slot, loose>>
    BY <1>9 DEF Read, providerVars, timerVars, Editable, Append, observers, RemoveOld,
         RemoveOldFails, Commit, Uploaded, PushFails
  <2> QED
    BY <2>1
<1>10. CASE Open \/ Send \/ SendFails \/ SendDone \/ DropCopy \/ DropFails \/ BeginImport \/
     ImportOne \/ ImportFails \/ EndImport \/ CutImport \/ UNCHANGED vars
  <2>1. UNCHANGED <<clock, texts, slot, loose>>
    BY <1>10 DEF Open, providerVars, timerVars, observers, Send, Editable, SendFails, SendDone,
         NoDrop, DropCopy, DropFails, BeginImport, ImportOne, ImportFails, EndImport, NoImport,
         CutImport, vars
  <2> QED
    BY <2>1
<1> QED
  BY <1>1, <1>2, <1>3, <1>4, <1>5, <1>6, <1>7, <1>8, <1>9, <1>10 DEF Next, UserStep, PushStep,
       ImportStep

LEMMA PushTyped == RowTypes /\ ProviderTypes /\ PushTypes /\ [Next]_vars => PushTypes'
<1> SUFFICES ASSUME RowTypes, ProviderTypes, PushTypes, [Next]_vars PROVE PushTypes'
  OBVIOUS
<1> USE DEF PushTypes, PushRec
<1>1. ASSUME NEW p \in Pushes, Fire(p) PROVE PushTypes'
  BY <1>1 DEF Fire, providerVars, observers
<1>2. ASSUME NEW p \in Pushes, Read(p) PROVE PushTypes'
  <2>1. push' = [push EXCEPT ![p].pc = "waiting", ![p].text = row.text, ![p].old = row.uid]
          \/ push' = [push EXCEPT ![p].pc = "leaving"]
    BY <1>2 DEF Read
  <2>2. row.text \in 0..MaxTexts /\ row.uid \in Nat /\ (Editable => row.text # 0)
    BY DEF RowTypes, RowRec, Editable
  <2> QED
    BY <1>2, <2>1, <2>2 DEF Read
<1>3. ASSUME NEW p \in Pushes, Append(p) PROVE PushTypes'
  <2>1. PICK u \in Nat : push' = [push EXCEPT ![p].pc = "appended", ![p].uid = u]
    <3>1. nextUid \in Nat
      BY DEF ProviderTypes
    <3> QED
      BY <1>3, <3>1 DEF Append
  <2>2. push[p].text # 0
    BY <1>3 DEF Append
  <2> QED
    BY <2>1, <2>2
<1>4. ASSUME NEW p \in Pushes, RemoveOld(p) PROVE PushTypes'
  BY <1>4 DEF RemoveOld, timerVars, observers
<1>5. ASSUME NEW p \in Pushes, RemoveOldFails(p) PROVE PushTypes'
  BY <1>5 DEF RemoveOldFails, providerVars, timerVars
<1>6. ASSUME NEW p \in Pushes, Commit(p) PROVE PushTypes'
  BY <1>6 DEF Commit, providerVars, timerVars, observers, Uploaded
<1>7. ASSUME NEW p \in Pushes, PushFails(p) PROVE PushTypes'
  BY <1>7 DEF PushFails, providerVars, timerVars
<1>8. ASSUME NEW p \in Pushes, Leave(p) PROVE PushTypes'
  BY <1>8 DEF Leave, providerVars, observers, IdlePush, NoTimer
<1>9. CASE Restart
  BY <1>9 DEF Restart, providerVars, IdlePush, NoImport, NoDrop, NoTimer
<1>10. CASE Create \/ Open \/ Save \/ Delete \/ Send \/ SendFails \/ SendDone \/ DropCopy \/
     DropFails \/ BeginImport \/ ImportOne \/ ImportFails \/ EndImport \/ CutImport \/ OtherEdit
     \/ Tick \/ UNCHANGED vars
  <2>1. UNCHANGED <<push>>
    BY <1>10 DEF Create, Schedule, providerVars, observers, Open, timerVars, Save, Editable,
         Delete, NoTimer, Send, SendFails, SendDone, NoDrop, DropCopy, DropFails, BeginImport,
         ImportOne, ImportFails, EndImport, NoImport, CutImport, OtherEdit, Tick, vars
  <2> QED
    BY <2>1
<1> QED
  BY <1>1, <1>2, <1>3, <1>4, <1>5, <1>6, <1>7, <1>8, <1>9, <1>10 DEF Next, UserStep, PushStep,
       ImportStep

\* A UID stays below UIDNEXT.
LEMMA CopiesGrow ==
  ASSUME NEW n \in Nat \ {0}
  PROVE  /\ Copy(n) \subseteq Copy(n + 1)
         /\ \A t \in 1..MaxTexts, at \in 0..MaxClock : [uid |-> n, text |-> t, at |-> at] \in Copy(n + 1)
         /\ 0..(n - 1) \subseteq 0..(n + 1 - 1)
BY DEF Copy

LEMMA ProviderTyped == TimeTypes /\ PushTypes /\ ProviderTypes /\ [Next]_vars => ProviderTypes'
<1> SUFFICES ASSUME TimeTypes, PushTypes, ProviderTypes, [Next]_vars PROVE ProviderTypes'
  OBVIOUS
<1> USE DEF ProviderTypes, Copy
<1>1. CASE DropCopy
  BY <1>1 DEF DropCopy, timerVars, observers, NoDrop
<1>2. ASSUME NEW p \in Pushes, Append(p) PROVE ProviderTypes'
  <2>1. push[p].text \in 1..MaxTexts /\ clock \in 0..MaxClock
    BY <1>2 DEF Append, PushTypes, PushRec, TimeTypes
  <2>2. /\ nextUid' = nextUid + 1 /\ UNCHANGED <<cursor, uidPlus, import>>
        /\ copies' = copies \cup {[uid |-> nextUid, text |-> push[p].text, at |-> clock]}
    BY <1>2 DEF Append
  <2> QED
    BY <2>1, <2>2, CopiesGrow DEF ProviderTypes
<1>3. ASSUME NEW p \in Pushes, RemoveOld(p) PROVE ProviderTypes'
  BY <1>3 DEF RemoveOld, timerVars, observers
<1>4. CASE BeginImport
  BY <1>4 DEF BeginImport, providerVars, timerVars, observers
<1>5. CASE ImportOne
  BY <1>5 DEF ImportOne, providerVars, timerVars
<1>6. CASE ImportFails
  BY <1>6 DEF ImportFails, providerVars, timerVars
<1>7. CASE EndImport
  BY <1>7 DEF EndImport, providerVars, timerVars, observers, NoImport
<1>8. CASE CutImport
  BY <1>8 DEF CutImport, providerVars, timerVars, NoImport
<1>9. CASE OtherEdit
  <2>1. texts' \in 1..MaxTexts /\ clock \in 0..MaxClock
    BY <1>9 DEF OtherEdit, TimeTypes
  <2>2. /\ nextUid' = nextUid + 1 /\ UNCHANGED <<cursor, uidPlus, import>>
        /\ copies' \subseteq copies \cup {[uid |-> nextUid, text |-> texts', at |-> clock]}
    BY <1>9 DEF OtherEdit
  <2> QED
    BY <2>1, <2>2, CopiesGrow DEF ProviderTypes
<1>10. CASE Restart
  BY <1>10 DEF Restart, providerVars, IdlePush, NoImport, NoDrop, NoTimer
<1>11. ASSUME NEW p \in Pushes, Fire(p) \/ Read(p) \/ RemoveOldFails(p) \/ Commit(p) \/
     PushFails(p) \/ Leave(p) PROVE ProviderTypes'
  <2>1. UNCHANGED <<nextUid, cursor, uidPlus, copies, import>>
    BY <1>11 DEF Fire, providerVars, observers, Read, timerVars, Editable, RemoveOldFails,
         Commit, Uploaded, PushFails, Leave, IdlePush, NoTimer
  <2> QED
    BY <2>1
<1>12. CASE Create \/ Open \/ Save \/ Delete \/ Send \/ SendFails \/ SendDone \/ DropFails \/
     Tick \/ UNCHANGED vars
  <2>1. UNCHANGED <<nextUid, cursor, uidPlus, copies, import>>
    BY <1>12 DEF Create, Schedule, providerVars, observers, Open, timerVars, Save, Editable,
         Delete, NoTimer, Send, SendFails, SendDone, NoDrop, DropFails, Tick, vars
  <2> QED
    BY <2>1
<1> QED
  BY <1>1, <1>2, <1>3, <1>4, <1>5, <1>6, <1>7, <1>8, <1>9, <1>10, <1>11, <1>12 DEF Next,
       UserStep, PushStep, ImportStep

LEMMA LockKept == PushTypes /\ ProviderTypes /\ LockInv /\ [Next]_vars => LockInv'
<1> SUFFICES ASSUME PushTypes, ProviderTypes, LockInv, [Next]_vars PROVE LockInv'
  OBVIOUS
<1> USE DEF LockInv, PushTypes, PushRec
<1>1. ASSUME NEW p \in Pushes, Fire(p) PROVE LockInv'
  BY <1>1 DEF Fire, providerVars, observers
<1>2. ASSUME NEW p \in Pushes, Read(p) PROVE LockInv'
  BY <1>2 DEF Read, providerVars, timerVars, Editable
<1>3. ASSUME NEW p \in Pushes, Append(p) PROVE LockInv'
  BY <1>3 DEF Append, timerVars, observers
<1>4. ASSUME NEW p \in Pushes, RemoveOld(p) PROVE LockInv'
  BY <1>4 DEF RemoveOld, timerVars, observers
<1>5. ASSUME NEW p \in Pushes, RemoveOldFails(p) PROVE LockInv'
  BY <1>5 DEF RemoveOldFails, providerVars, timerVars
<1>6. ASSUME NEW p \in Pushes, Commit(p) PROVE LockInv'
  BY <1>6 DEF Commit, providerVars, timerVars, observers, Uploaded
<1>7. ASSUME NEW p \in Pushes, PushFails(p) PROVE LockInv'
  BY <1>7 DEF PushFails, providerVars, timerVars
<1>8. ASSUME NEW p \in Pushes, Leave(p) PROVE LockInv'
  BY <1>8 DEF Leave, providerVars, observers, IdlePush, NoTimer
<1>9. CASE BeginImport
  BY <1>9 DEF BeginImport, providerVars, timerVars, observers
<1>10. CASE ImportOne
  BY <1>10 DEF ImportOne, providerVars, timerVars
<1>11. CASE ImportFails
  BY <1>11 DEF ImportFails, providerVars, timerVars
<1>12. CASE EndImport
  BY <1>12 DEF EndImport, providerVars, timerVars, observers, NoImport
<1>13. CASE CutImport
  BY <1>13 DEF CutImport, providerVars, timerVars, NoImport
<1>14. CASE Restart
  BY <1>14 DEF Restart, providerVars, IdlePush, NoImport, NoDrop, NoTimer
<1>15. CASE Create \/ Open \/ Save \/ Delete \/ Send \/ SendFails \/ SendDone \/ DropCopy \/
     DropFails \/ OtherEdit \/ Tick \/ UNCHANGED vars
  <2>1. UNCHANGED <<lock, push, import>>
    BY <1>15 DEF Create, Schedule, providerVars, observers, Open, timerVars, Save, Editable,
         Delete, NoTimer, Send, SendFails, SendDone, NoDrop, DropCopy, DropFails, OtherEdit,
         Tick, vars
  <2> QED
    BY <2>1
<1> QED
  BY <1>1, <1>2, <1>3, <1>4, <1>5, <1>6, <1>7, <1>8, <1>9, <1>10, <1>11, <1>12, <1>13, <1>14,
       <1>15 DEF Next, UserStep, PushStep, ImportStep

-----------------------------------------------------------------------------
(* The composer and the import. *)

\* What the composer has open is what the row holds, if the revisions agree.
EditorInv == editor.rev <= row.rev /\ (editor.rev = row.rev => editor.text = row.text)

LEMMA EditorKept == RowTypes /\ PushTypes /\ EditorInv /\ [Next]_vars => EditorInv'
<1> SUFFICES ASSUME RowTypes, PushTypes, EditorInv, [Next]_vars PROVE EditorInv'
  OBVIOUS
<1> USE DEF EditorInv, RowTypes, RowRec
<1>1. CASE Create
  BY <1>1 DEF Create, Schedule, providerVars, observers
<1>2. CASE Open
  BY <1>2 DEF Open, providerVars, timerVars, observers
<1>3. CASE Save
  BY <1>3 DEF Save, Schedule, providerVars, Editable
<1>4. CASE Delete
  BY <1>4 DEF Delete, providerVars, observers, NoTimer
<1>5. CASE Send
  BY <1>5 DEF Send, providerVars, timerVars, observers, Editable
<1>6. CASE SendFails
  BY <1>6 DEF SendFails, providerVars, timerVars, observers
<1>7. CASE SendDone
  BY <1>7 DEF SendDone, providerVars, timerVars, observers, NoDrop
<1>8. ASSUME NEW p \in Pushes, Commit(p) PROVE EditorInv'
  BY <1>8 DEF Commit, providerVars, timerVars, observers, Uploaded
<1>9. CASE ImportOne
  <2>1. PICK c \in import.todo : ReconcileRemoteDraft(c)
    BY <1>9 DEF ImportOne
  <2>2. editor' = editor /\ (row' = row \/ row'.rev = row.rev + 1)
    BY <1>9, <2>1 DEF ImportOne, ReconcileRemoteDraft, Taken
  <2> QED
    BY <2>2
<1>10. ASSUME NEW p \in Pushes, Fire(p) \/ Read(p) \/ Append(p) \/ RemoveOld(p) \/
     RemoveOldFails(p) \/ PushFails(p) \/ Leave(p) PROVE EditorInv'
  <2>1. UNCHANGED <<row, editor>>
    BY <1>10 DEF Fire, providerVars, observers, Read, timerVars, Editable, Append, RemoveOld,
         RemoveOldFails, PushFails, Leave, IdlePush, NoTimer
  <2> QED
    BY <2>1
<1>11. CASE DropCopy \/ DropFails \/ BeginImport \/ ImportFails \/ EndImport \/ CutImport \/
     OtherEdit \/ Tick \/ Restart \/ UNCHANGED vars
  <2>1. UNCHANGED <<row, editor>>
    BY <1>11 DEF DropCopy, timerVars, observers, NoDrop, DropFails, providerVars, BeginImport,
         ImportFails, EndImport, NoImport, CutImport, OtherEdit, Tick, Restart, IdlePush,
         NoTimer, vars
  <2> QED
    BY <2>1
<1> QED
  BY <1>1, <1>2, <1>3, <1>4, <1>5, <1>6, <1>7, <1>8, <1>9, <1>10, <1>11 DEF Next, UserStep,
       PushStep, ImportStep

-----------------------------------------------------------------------------
(* The theorems. *)

DraftInv == RowTypes /\ TimeTypes /\ PushTypes /\ ProviderTypes /\ LockInv /\ EditorInv

LEMMA DraftInvariant == Spec => []DraftInv
<1>1. Init => DraftInv
  BY TypesInitial DEF DraftInv, EditorInv, Init, NoRow
<1>2. DraftInv /\ [Next]_vars => DraftInv'
  BY RowTyped, TimeTyped, PushTyped, ProviderTyped, LockKept, EditorKept DEF DraftInv
<1> QED
  BY <1>1, <1>2, PTL DEF Spec

\* Types, and the account's command lock: a push holds it exactly between its APPEND and the
\* write of the row, an import for as long as it runs, and nobody else does.
THEOREM TypeCorrect == Spec => []TypeOK
<1>1. DraftInv => TypeOK
  BY TypesImply DEF DraftInv
<1> QED
  BY <1>1, DraftInvariant, PTL

\* A save replaces only the text its author had before them, however many imports came between:
\* the revision UpdateDraft compares moves with every change of the text.
THEOREM NoOverwrite == Spec => NoBlindOverwrite
<1>1. DraftInv /\ [Next]_vars => [Save => row.text = editor.text]_vars
  BY DEF DraftInv, EditorInv, Save
<1> QED
  BY <1>1, DraftInvariant, PTL DEF NoBlindOverwrite, Spec

\* An edit not yet uploaded is replaced only by a later one, and one made within the clock-skew
\* window is kept beside it: ReconcileRemoteDraft.
THEOREM EditSurvives == Spec => LocalEditSurvives
<1> DEFINE Survives ==
      ImportOne /\ row.sync = "dirty" /\ Exists =>
        \/ row'.text # row.text /\ row'.at > row.at
        \/ /\ row'.text = row.text
           /\ \A c \in import.todo \ import'.todo :
                c.at = row.at /\ c.uid # row.uid => c.text \in apart'
<1>1. DraftInv /\ [Next]_vars => [Survives]_vars
  <2> SUFFICES ASSUME DraftInv, ImportOne, row.sync = "dirty", Exists
               PROVE  Survives
    OBVIOUS
  <2>1. PICK c \in import.todo :
          /\ ReconcileRemoteDraft(c)
          /\ import' = [import EXCEPT !.todo = @ \ {c}, !.last = c.uid]
    BY DEF ImportOne
  <2>2. import.todo \ import'.todo \subseteq {c}
    BY <2>1
  <2>3. c.at \in Nat /\ row.at \in Nat /\ row \in RowRec
    BY <2>1 DEF DraftInv, ProviderTypes, Copy, RowTypes, RowRec
  <2>4. CASE row.uid = c.uid
    BY <2>1, <2>2, <2>4 DEF ReconcileRemoteDraft
  <2>5. CASE row.uid # c.uid /\ Ties(c)
    BY <2>1, <2>2, <2>5 DEF ReconcileRemoteDraft
  <2>6. CASE row.uid # c.uid /\ ~Ties(c)
    <3>1. row.at # c.at
      BY <2>6 DEF Ties
    <3>2. row' = IF row.sync = "dirty" /\ row.at > c.at THEN row ELSE Taken(c)
      BY <2>1, <2>6 DEF ReconcileRemoteDraft
    <3>3. row' # row => row'.at > row.at
      BY <2>3, <3>1, <3>2 DEF Taken, RowRec
    <3> QED
      BY <2>2, <3>1, <3>3
  <2> QED
    BY <2>4, <2>5, <2>6
<1> QED
  BY <1>1, DraftInvariant, PTL DEF LocalEditSurvives, Spec
=============================================================================
