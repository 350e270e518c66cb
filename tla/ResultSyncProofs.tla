-------------------------- MODULE ResultSyncProofs --------------------------
(***************************************************************************)
(* Theorems about ResultSync for every set of analyses, tasks and          *)
(* collectors, at both levels and for every number of copies and crashes.  *)
(***************************************************************************)
EXTENDS ResultSync, TLAPS

USE ResultSyncAssumption
    DEF Outcomes, Real, References, Contents, NoRows, PCs, broker, session, history

(* Every variable keeps its type. *)
THEOREM TypeCorrect == Spec => []TypeOK
<1>1. Init => TypeOK
  <2> SUFFICES ASSUME Init PROVE TypeOK
    OBVIOUS
  <2>1. /\ row \in [Analyses -> [Tasks -> Contents]]
        /\ obj \in [Tasks -> Contents]
        /\ loaded \in [Collectors -> [Tasks -> Contents]]
    BY DEF Init
  <2>2. /\ pc \in [Collectors -> PCs]
        /\ doc \in [Collectors -> Analyses \cup {None}]
        /\ \A c \in Collectors : pc[c] = "idle"
    BY DEF Init
  <2>3. /\ todo \in [Collectors -> SUBSET Tasks]
        /\ pending \in [Collectors -> SUBSET Tasks]
        /\ names \in [Collectors -> SUBSET Tasks]
        /\ old \in [Collectors -> SUBSET Tasks]
    BY DEF Init
  <2>4. base \subseteq Tasks /\ finished \subseteq Analyses /\ gaveUp \subseteq Analyses
    BY DEF Init
  <2>5. queue \in [Analyses -> Nat] /\ repeats \in 0..MaxRepeats
    BY DEF Init
  <2>6. overlapped \in BOOLEAN
    BY DEF Init
  <2> QED
    BY <2>1, <2>2, <2>3, <2>4, <2>5, <2>6 DEF TypeOK
<1>2. TypeOK /\ [Next]_vars => TypeOK'
  <2> SUFFICES ASSUME TypeOK, [Next]_vars PROVE TypeOK'
    OBVIOUS
  <2>1. ASSUME NEW a \in Analyses, Analyse(a) PROVE TypeOK'
    BY <2>1 DEF Analyse, TypeOK
  <2>2. ASSUME NEW a \in Analyses, Copy(a) PROVE TypeOK'
    BY <2>2 DEF Copy, TypeOK
  <2>3. ASSUME NEW c \in Collectors, NEW a \in Analyses, Load(c, a) PROVE TypeOK'
    BY <2>3 DEF Load, RealRows, Goto, TypeOK
  <2>4. ASSUME NEW c \in Collectors, NEW t \in Tasks, Upload(c, t) PROVE TypeOK'
    BY <2>4 DEF Upload, TypeOK
  <2>5. ASSUME NEW c \in Collectors, NEW t \in Tasks, UpdateRow(c, t) PROVE TypeOK'
    BY <2>5 DEF UpdateRow, ReferenceTo, TypeOK
  <2>6. ASSUME NEW c \in Collectors, Commit(c) PROVE TypeOK'
    BY <2>6 DEF Commit, Step, Goto, TypeOK
  <2>7. ASSUME NEW c \in Collectors, Record(c) PROVE TypeOK'
    BY <2>7 DEF Record, Listed, Step, Goto, TypeOK
  <2>8. ASSUME NEW c \in Collectors, ReadBase(c) PROVE TypeOK'
    BY <2>8 DEF ReadBase, Step, Goto, TypeOK
  <2>9. ASSUME NEW c \in Collectors, WriteBase(c) PROVE TypeOK'
    BY <2>9 DEF WriteBase, Step, Goto, TypeOK
  <2>10. ASSUME NEW c \in Collectors, Acknowledge(c) PROVE TypeOK'
    BY <2>10 DEF Acknowledge, Idle, Goto, TypeOK
  <2>11. ASSUME NEW c \in Collectors, Fail(c) PROVE TypeOK'
    BY <2>11 DEF Fail, Step, Goto, TypeOK
  <2>12. ASSUME NEW c \in Collectors, Crash(c) PROVE TypeOK'
    BY <2>12 DEF Crash, Idle, Goto, TypeOK
  <2>13. CASE UNCHANGED vars
    BY <2>13 DEF vars, TypeOK
  <2> QED
    BY <2>1, <2>2, <2>3, <2>4, <2>5, <2>6, <2>7, <2>8, <2>9, <2>10, <2>11, <2>12, <2>13
       DEF Next, Run
<1> QED
  BY <1>1, <1>2, PTL DEF Spec

-----------------------------------------------------------------------------
(* What a collector has changed in its session it has uploaded before, and *)
(* what it is going to upload is a result.                                 *)
UploadedFirst ==
    /\ ReferenceResolves
    /\ S3HoldsResults
    /\ \A c \in Collectors, t \in Tasks : t \in pending[c] => obj[t] # "none"
    /\ \A c \in Collectors, t \in Tasks : t \in todo[c] => loaded[c][t] \in Real

(* UploadedFirst is inductive. *)
THEOREM UploadInductive == Spec => []UploadedFirst
<1>1. Init => UploadedFirst
  BY DEF Init, UploadedFirst, ReferenceResolves, S3HoldsResults
<1>2. TypeOK /\ UploadedFirst /\ [Next]_vars => UploadedFirst'
  <2> SUFFICES ASSUME TypeOK, UploadedFirst, [Next]_vars PROVE UploadedFirst'
    OBVIOUS
  <2> USE DEF UploadedFirst, ReferenceResolves, S3HoldsResults, TypeOK
  <2>1. ASSUME NEW a \in Analyses, Analyse(a) PROVE UploadedFirst'
    <3>1. PICK outcome \in [Tasks -> Outcomes] : row' = [row EXCEPT ![a] = outcome]
      BY <2>1 DEF Analyse
    <3>2. \A b \in Analyses, t \in Tasks : row'[b][t] \in References => row[b][t] \in References
      BY <3>1
    <3>3. UNCHANGED <<obj, todo, loaded, pending>>
      BY <2>1 DEF Analyse
    <3> QED
      BY <3>2, <3>3
  <2>2. ASSUME NEW a \in Analyses, Copy(a) PROVE UploadedFirst'
    BY <2>2 DEF Copy
  <2>3. ASSUME NEW c \in Collectors, NEW a \in Analyses, Load(c, a) PROVE UploadedFirst'
    BY <2>3 DEF Load, RealRows, Goto
  <2>4. ASSUME NEW c \in Collectors, NEW t \in Tasks, Upload(c, t) PROVE UploadedFirst'
    BY <2>4 DEF Upload
  <2>5. ASSUME NEW c \in Collectors, NEW t \in Tasks, UpdateRow(c, t) PROVE UploadedFirst'
    BY <2>5 DEF UpdateRow, ReferenceTo
  <2>6. ASSUME NEW c \in Collectors, Commit(c) PROVE UploadedFirst'
    BY <2>6 DEF Commit, Step, Goto
  <2>7. ASSUME NEW c \in Collectors, Record(c) PROVE UploadedFirst'
    BY <2>7 DEF Record, Step, Goto
  <2>8. ASSUME NEW c \in Collectors, ReadBase(c) PROVE UploadedFirst'
    BY <2>8 DEF ReadBase, Step, Goto
  <2>9. ASSUME NEW c \in Collectors, WriteBase(c) PROVE UploadedFirst'
    BY <2>9 DEF WriteBase, Step, Goto
  <2>10. ASSUME NEW c \in Collectors, Acknowledge(c) PROVE UploadedFirst'
    BY <2>10 DEF Acknowledge, Idle, Goto
  <2>11. ASSUME NEW c \in Collectors, Fail(c) PROVE UploadedFirst'
    BY <2>11 DEF Fail, Step, Goto
  <2>12. ASSUME NEW c \in Collectors, Crash(c) PROVE UploadedFirst'
    BY <2>12 DEF Crash, Idle, Goto
  <2>13. CASE UNCHANGED vars
    BY <2>13 DEF vars
  <2> HIDE DEF UploadedFirst, ReferenceResolves, S3HoldsResults, TypeOK
  <2> QED
    BY <2>1, <2>2, <2>3, <2>4, <2>5, <2>6, <2>7, <2>8, <2>9, <2>10, <2>11, <2>12, <2>13
       DEF Next, Run
<1> QED
  BY <1>1, <1>2, TypeCorrect, PTL DEF Spec

(* A reference in a row always has its object on S3: no order of crashes,  *)
(* failures and repeated collectors leaves a result neither in the         *)
(* database nor on S3.                                                     *)
THEOREM ReferenceAlwaysResolves == Spec => []ReferenceResolves
<1>1. UploadedFirst => ReferenceResolves
  BY DEF UploadedFirst
<1> QED
  BY <1>1, UploadInductive, PTL

(* No repeated collector writes a reference over a result on S3. *)
THEOREM S3AlwaysHoldsResults == Spec => []S3HoldsResults
<1>1. UploadedFirst => S3HoldsResults
  BY DEF UploadedFirst
<1> QED
  BY <1>1, UploadInductive, PTL

-----------------------------------------------------------------------------
(* A row, once there, stays: the tasks that a collector has recorded are   *)
(* all tasks of its analysis until it has written the base file.           *)
Filled(a) == row[a] # NoRows
RowsStay ==
    /\ \A a \in Analyses : queue[a] > 0 \/ a \in finished => Filled(a)
    /\ \A c \in Collectors : pc[c] # "idle" => Filled(doc[c])
    /\ \A c \in Collectors, t \in Tasks :
          t \in todo[c] \cup pending[c] => pc[c] # "idle" /\ row[doc[c]][t] # "none"

OneCollector == \A c, d \in Collectors : pc[c] # "idle" /\ pc[d] # "idle" => c = d
BaseIsRead ==
    \A c \in Collectors :
        /\ pc[c] \in {"record", "write"} => names[c] = Listed(doc[c])
        /\ pc[c] = "write" => old[c] = base
BaseInv == ~overlapped => OneCollector /\ BaseIsRead /\ BaseListsCollected

(* RowsStay is inductive. *)
LEMMA RowsStayInductive == Spec => []RowsStay
<1>1. Init => RowsStay
  BY DEF Init, RowsStay, Filled
<1>2. TypeOK /\ RowsStay /\ [Next]_vars => RowsStay'
  <2> SUFFICES ASSUME TypeOK, RowsStay, [Next]_vars PROVE RowsStay'
    OBVIOUS
  <2> USE DEF RowsStay, Filled, TypeOK
  <2>1. ASSUME NEW a \in Analyses, Analyse(a) PROVE RowsStay'
    BY <2>1 DEF Analyse
  <2>2. ASSUME NEW a \in Analyses, Copy(a) PROVE RowsStay'
    BY <2>2 DEF Copy
  <2>3. ASSUME NEW c \in Collectors, NEW a \in Analyses, Load(c, a) PROVE RowsStay'
    BY <2>3 DEF Load, RealRows, Goto
  <2>4. ASSUME NEW c \in Collectors, NEW t \in Tasks, Upload(c, t) PROVE RowsStay'
    BY <2>4 DEF Upload
  <2>5. ASSUME NEW c \in Collectors, NEW t \in Tasks, UpdateRow(c, t) PROVE RowsStay'
    BY <2>5 DEF UpdateRow, ReferenceTo
  <2>6. ASSUME NEW c \in Collectors, Commit(c) PROVE RowsStay'
    BY <2>6 DEF Commit, Step, Goto
  <2>7. ASSUME NEW c \in Collectors, Record(c) PROVE RowsStay'
    BY <2>7 DEF Record, Step, Goto
  <2>8. ASSUME NEW c \in Collectors, ReadBase(c) PROVE RowsStay'
    BY <2>8 DEF ReadBase, Step, Goto
  <2>9. ASSUME NEW c \in Collectors, WriteBase(c) PROVE RowsStay'
    BY <2>9 DEF WriteBase, Step, Goto
  <2>10. ASSUME NEW c \in Collectors, Acknowledge(c) PROVE RowsStay'
    BY <2>10 DEF Acknowledge, Idle, Goto
  <2>11. ASSUME NEW c \in Collectors, Fail(c) PROVE RowsStay'
    BY <2>11 DEF Fail, Step, Goto
  <2>12. ASSUME NEW c \in Collectors, Crash(c) PROVE RowsStay'
    BY <2>12 DEF Crash, Idle, Goto
  <2>13. CASE UNCHANGED vars
    BY <2>13 DEF vars
  <2> HIDE DEF RowsStay, Filled, TypeOK
  <2> QED
    BY <2>1, <2>2, <2>3, <2>4, <2>5, <2>6, <2>7, <2>8, <2>9, <2>10, <2>11, <2>12, <2>13
       DEF Next, Run
<1> QED
  BY <1>1, <1>2, TypeCorrect, PTL DEF Spec

(* When no two collectors overlap, the base file does not change between   *)
(* its read and its write.                                                 *)
THEOREM BaseInductive == ASSUME ~PackageLevel PROVE Spec => []BaseInv
<1>1. Init => BaseInv
  BY DEF Init, BaseInv, OneCollector, BaseIsRead, BaseListsCollected
<1>2. TypeOK /\ RowsStay /\ RowsStay' /\ BaseInv /\ [Next]_vars => BaseInv'
  <2> SUFFICES ASSUME TypeOK, RowsStay, RowsStay', BaseInv, [Next]_vars, ~overlapped' PROVE
               OneCollector' /\ BaseIsRead' /\ BaseListsCollected'
    BY DEF BaseInv
  <2> DEFINE Goal == OneCollector' /\ BaseIsRead' /\ BaseListsCollected'
  <2> USE DEF TypeOK, RowsStay, Filled, BaseInv, OneCollector, BaseIsRead, BaseListsCollected,
              Listed
  <2>1. ASSUME NEW a \in Analyses, Analyse(a) PROVE Goal
    BY <2>1 DEF Analyse
  <2>2. ASSUME NEW a \in Analyses, Copy(a) PROVE Goal
    BY <2>2 DEF Copy
  <2>3. ASSUME NEW c \in Collectors, NEW a \in Analyses, Load(c, a) PROVE Goal
    BY <2>3 DEF Load, Goto
  <2>4. ASSUME NEW c \in Collectors, NEW t \in Tasks, Upload(c, t) PROVE Goal
    BY <2>4 DEF Upload
  <2>5. ASSUME NEW c \in Collectors, NEW t \in Tasks, UpdateRow(c, t) PROVE Goal
    BY <2>5 DEF UpdateRow, ReferenceTo
  <2>6. ASSUME NEW c \in Collectors, Commit(c) PROVE Goal
    BY <2>6 DEF Commit, Step, Goto
  <2>7. ASSUME NEW c \in Collectors, Record(c) PROVE Goal
    BY <2>7 DEF Record, Step, Goto
  <2>8. ASSUME NEW c \in Collectors, ReadBase(c) PROVE Goal
    BY <2>8 DEF ReadBase, Step, Goto
  <2>9. ASSUME NEW c \in Collectors, WriteBase(c) PROVE Goal
    BY <2>9 DEF WriteBase, Step, Goto
  <2>10. ASSUME NEW c \in Collectors, Acknowledge(c) PROVE Goal
    BY <2>10 DEF Acknowledge, Idle, Goto
  <2>11. ASSUME NEW c \in Collectors, Fail(c) PROVE Goal
    BY <2>11 DEF Fail, Step, Goto
  <2>12. ASSUME NEW c \in Collectors, Crash(c) PROVE Goal
    BY <2>12 DEF Crash, Idle, Goto
  <2>13. CASE UNCHANGED vars
    BY <2>13 DEF vars
  <2> HIDE DEF TypeOK, RowsStay, Filled, BaseInv, OneCollector, BaseIsRead,
               BaseListsCollected, Listed
  <2>14. Goal
    BY <2>1, <2>2, <2>3, <2>4, <2>5, <2>6, <2>7, <2>8, <2>9, <2>10, <2>11, <2>12, <2>13
       DEF Next, Run
  <2> QED
    BY <2>14 DEF Goal
<1> QED
  BY <1>1, <1>2, TypeCorrect, RowsStayInductive, PTL DEF Spec

(* Collectors of package versions that do not overlap lose no task from    *)
(* the base file, whatever dies or fails between its read and its write.   *)
THEOREM BaseAlwaysListsCollected ==
    ASSUME ~PackageLevel PROVE Spec => []BaseListsCollected
<1>1. BaseInv => BaseListsCollected
  BY DEF BaseInv, BaseListsCollected
<1> QED
  BY <1>1, BaseInductive, PTL

-----------------------------------------------------------------------------
(* A result that is still in its row is waited for by a message, or a      *)
(* collector is about to replace it, or a collector failed.                *)
Works(c, t) == \/ pc[c] = "upload" /\ t \in todo[c] \cup pending[c]
               \/ pc[c] = "flush" /\ t \in pending[c]
Awaited(a, t) == \/ a \in gaveUp
                 \/ queue[a] > 0
                 \/ \E c \in Collectors : doc[c] = a /\ Works(c, t)
LeftToSync == \A a \in Analyses, t \in Tasks : row[a][t] \in Real => Awaited(a, t)

(* LeftToSync is inductive. *)
THEOREM AwaitedInductive == Spec => []LeftToSync
<1>1. Init => LeftToSync
  BY DEF Init, LeftToSync
<1>2. TypeOK /\ LeftToSync /\ [Next]_vars => LeftToSync'
  <2> SUFFICES ASSUME TypeOK, LeftToSync, [Next]_vars, NEW b \in Analyses, NEW u \in Tasks,
                      row'[b][u] \in Real
               PROVE  Awaited(b, u)'
    BY DEF LeftToSync
  <2> DEFINE Goal == Awaited(b, u)'
  <2> USE DEF TypeOK, LeftToSync, Awaited, Works
  <2>1. ASSUME NEW a \in Analyses, Analyse(a) PROVE Goal
    BY <2>1 DEF Analyse
  <2>2. ASSUME NEW a \in Analyses, Copy(a) PROVE Goal
    BY <2>2 DEF Copy
  <2>3. ASSUME NEW c \in Collectors, NEW a \in Analyses, Load(c, a) PROVE Goal
    <3>1. row' = row /\ gaveUp' = gaveUp /\ pending' = pending /\ pc[c] = "idle"
      BY <2>3 DEF Load
    <3>2. CASE b = a
      <4>1. u \in RealRows(a)
        BY <3>1, <3>2 DEF RealRows
      <4>2. doc'[c] = b /\ pc'[c] = "upload" /\ todo'[c] = RealRows(a)
        BY <2>3, <3>2 DEF Load, Goto
      <4> QED
        BY <4>1, <4>2
    <3>3. CASE b # a /\ queue[b] > 0
      <4>1. queue'[b] = queue[b]
        BY <2>3, <3>3 DEF Load
      <4> QED
        BY <3>3, <4>1
    <3>4. ASSUME NEW d \in Collectors, doc[d] = b, Works(d, u) PROVE Goal
      <4>1. d # c
        BY <3>1, <3>4
      <4>2. doc'[d] = doc[d] /\ pc'[d] = pc[d] /\ todo'[d] = todo[d] /\ pending'[d] = pending[d]
        BY <2>3, <4>1 DEF Load, Goto
      <4> QED
        BY <3>4, <4>2
    <3> QED
      BY <3>1, <3>2, <3>3, <3>4
  <2>4. ASSUME NEW c \in Collectors, NEW t \in Tasks, Upload(c, t) PROVE Goal
    BY <2>4 DEF Upload
  <2>5. ASSUME NEW c \in Collectors, NEW t \in Tasks, UpdateRow(c, t) PROVE Goal
    BY <2>5 DEF UpdateRow, ReferenceTo
  <2>6. ASSUME NEW c \in Collectors, Commit(c) PROVE Goal
    BY <2>6 DEF Commit, Step, Goto
  <2>7. ASSUME NEW c \in Collectors, Record(c) PROVE Goal
    BY <2>7 DEF Record, Step, Goto
  <2>8. ASSUME NEW c \in Collectors, ReadBase(c) PROVE Goal
    BY <2>8 DEF ReadBase, Step, Goto
  <2>9. ASSUME NEW c \in Collectors, WriteBase(c) PROVE Goal
    BY <2>9 DEF WriteBase, Step, Goto
  <2>10. ASSUME NEW c \in Collectors, Acknowledge(c) PROVE Goal
    BY <2>10 DEF Acknowledge, Idle, Goto
  <2>11. ASSUME NEW c \in Collectors, Fail(c) PROVE Goal
    BY <2>11 DEF Fail, Step, Goto
  <2>12. ASSUME NEW c \in Collectors, Crash(c) PROVE Goal
    BY <2>12 DEF Crash, Idle, Goto
  <2>13. CASE UNCHANGED vars
    BY <2>13 DEF vars
  <2> HIDE DEF TypeOK, LeftToSync, Awaited, Works
  <2>14. Goal
    BY <2>1, <2>2, <2>3, <2>4, <2>5, <2>6, <2>7, <2>8, <2>9, <2>10, <2>11, <2>12, <2>13
       DEF Next, Run
  <2> QED
    BY <2>14 DEF Goal
<1> QED
  BY <1>1, <1>2, TypeCorrect, PTL DEF Spec

(* No result is left behind, however messages are repeated and wherever    *)
(* collectors die.                                                         *)
THEOREM NoResultLeftBehind == Spec => []NothingLeftBehind
<1>1. LeftToSync => NothingLeftBehind
  BY DEF LeftToSync, Awaited, NothingLeftBehind, RealRows
<1> QED
  BY <1>1, AwaitedInductive, PTL
=============================================================================
