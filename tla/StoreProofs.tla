----------------------------- MODULE StoreProofs -----------------------------
(***************************************************************************)
(* Proofs about Store: its types, that a marked row is backed by a save,   *)
(* and that a file is whole unless it was spoiled.                         *)
(*                                                                         *)
(* Each handler works on one job from Begin to Quit. What it does to the   *)
(* rows depends on the place it is at, so the invariants say what is true  *)
(* of the job of a handler at that place, and of the writers of a file.    *)
(***************************************************************************)
EXTENDS Store, TLAPS

-----------------------------------------------------------------------------
(* The inductive invariant. *)

(* A job is that of a client that has an id. *)
JobsAreIssued == \A h \in Handlers : pc[h] # "idle" => job[h].client \in issued

(* Whoever is about to mark rows has saved the file of its job. *)
MarkersHaveSaved ==
    \A h \in Handlers : pc[h] = "set_file_verified" => job[h] \in saved

(* A file that is not spoiled has one writer at most, which finds it       *)
(* empty, or is whole.                                                     *)
Whole(f) ==
    /\ \A g, h \in Writers(f) : g = h
    /\ Writers(f) # {} => disk[f] = <<>>
    /\ Writers(f) = {} /\ (\E j \in saved : j.file = f) => HoldsOneUpload(f)
FilesAreWhole == \A f \in Files \ spoiled : Whole(f)

IInv ==
    /\ TypeOK
    /\ JobsAreIssued
    /\ MarkersHaveSaved
    /\ VerifiedIsBacked
    /\ FilesAreWhole

-----------------------------------------------------------------------------
(* Files as sequences of blocks. *)

(* A write leaves a sequence of blocks. *)
LEMMA OverwriteType ==
    ASSUME NEW B, NEW old \in Seq(B), NEW data \in B, NEW n \in Nat
    PROVE  Overwrite(old, data, n) \in Seq(B)
<1> DEFINE m == IF Len(old) > n THEN Len(old) ELSE n
           block(i) == IF i <= n THEN data ELSE old[i]
<1>1. Len(old) \in Nat /\ \A i \in 1 .. Len(old) : old[i] \in B
  OBVIOUS
<1>2. m \in Nat
  BY <1>1
<1>3. \A i \in 1 .. m : block(i) \in B
  BY <1>1
<1>4. [i \in 1 .. m |-> block(i)] \in [1 .. m -> B]
  <2> HIDE DEF m, block
  <2> QED
    BY <1>3
<1>5. [1 .. m -> B] \subseteq Seq(B)
  <2> HIDE DEF m
  <2> QED
    BY <1>2
<1> QED
  BY <1>4, <1>5 DEF Overwrite

(* A write to an empty file leaves what was written. *)
LEMMA OverwriteEmpty ==
    ASSUME NEW data, NEW n \in Nat
    PROVE  Overwrite(<<>>, data, n) = [i \in 1 .. n |-> data]
  BY DEF Overwrite

-----------------------------------------------------------------------------
(* What most actions leave alone. *)

(* A step of a handler between places where it does not write makes no     *)
(* difference to the writers of any file.                                  *)
LEMMA SameWriters ==
    ASSUME TypeOK, NEW h \in Handlers, NEW v, NEW place \in Places \ {"write"},
           pc[h] # "write", Goto(h, place),
           job' = job \/ job' = [job EXCEPT ![h] = v]
    PROVE  \A f : Writers(f)' = Writers(f)
<1> SUFFICES ASSUME NEW f, NEW g \in Handlers
             PROVE  (pc'[g] = "write" /\ job'[g].file = f)
                      <=> (pc[g] = "write" /\ job[g].file = f)
  BY DEF Writers
<1>1. CASE g = h
  BY <1>1 DEF TypeOK, Goto
<1>2. CASE g # h
  BY <1>2 DEF TypeOK, Goto
<1> QED
  BY <1>1, <1>2

(* Nothing but the writers, the content, the saves and the spoiled files   *)
(* matter to whether files are whole.                                      *)
LEMMA SameFiles ==
    ASSUME FilesAreWhole, UNCHANGED <<disk, saved, spoiled>>,
           \A f : Writers(f)' = Writers(f)
    PROVE  FilesAreWhole'
  BY DEF FilesAreWhole, Whole, HoldsOneUpload

(* Without a new row or save, rows are backed as they were. *)
LEMMA SameRows ==
    ASSUME VerifiedIsBacked, rows' = rows, saved \subseteq saved'
    PROVE  VerifiedIsBacked'
  BY DEF VerifiedIsBacked

(* Whoever is at a place has a job. *)
LEMMA AtWork ==
    ASSUME TypeOK, NEW h \in Handlers, pc[h] # "idle"
    PROVE  job[h] \in Jobs
  BY DEF TypeOK

(* No data is numbered 0. *)
LEMMA NoJobIsNone == NoJob \notin Jobs
  BY DEF NoJob, Jobs

(* A handler that goes somewhere with a job, or nowhere without one.       *)
HandlersOK ==
    /\ pc \in [Handlers -> Places]
    /\ section \in [Handlers -> 1 .. 2]
    /\ job \in [Handlers -> Jobs \cup {NoJob}]
    /\ \A h \in Handlers : job[h] = NoJob <=> pc[h] = "idle"

LEMMA MoveType ==
    ASSUME TypeOK, NEW h \in Handlers, NEW place \in Places, Goto(h, place),
           NEW v \in Jobs \cup {NoJob}, v = NoJob <=> place = "idle",
           job' = [job EXCEPT ![h] = v]
    PROVE  HandlersOK'
  BY DEF TypeOK, HandlersOK, Goto

(* It may go on with the job it has. *)
LEMMA StayType ==
    ASSUME TypeOK, NEW h \in Handlers, NEW place \in Places, Goto(h, place),
           pc[h] # "idle", place # "idle", job' = job
    PROVE  HandlersOK'
  BY DEF TypeOK, HandlersOK, Goto

(* Or stop. *)
LEMMA QuitType ==
    ASSUME TypeOK, NEW h \in Handlers, Quit(h)
    PROVE  HandlersOK'
<1>1. "idle" \in Places
  BY DEF Places
<1> QED
  BY <1>1, MoveType DEF Quit

-----------------------------------------------------------------------------
(* The initial states. *)

LEMMA InitIInv == Init => IInv
<1> SUFFICES ASSUME Init PROVE IInv
  OBVIOUS
<1>1. TypeOK
  BY BoundAssumption DEF Init, TypeOK, Places
<1>2. JobsAreIssued /\ MarkersHaveSaved /\ VerifiedIsBacked
  BY DEF Init, JobsAreIssued, MarkersHaveSaved, VerifiedIsBacked
<1>3. FilesAreWhole
  BY DEF Init, FilesAreWhole, Whole, Writers
<1> QED
  BY <1>1, <1>2, <1>3 DEF IInv

-----------------------------------------------------------------------------
(* The steps. *)

(* A handler begins with a job of a client that has an id by then. *)
LEMMA BeginIInv ==
    ASSUME IInv, NEW h \in Handlers, Begin(h)
    PROVE  IInv'
<1> USE DEF IInv
<1>1. PICK c \in Clients, f \in Files, n \in Sizes :
        /\ job' = [job EXCEPT ![h] = [client |-> c, file |-> f,
                      data |-> uploads', size |-> n, attempt |-> 1]]
        /\ issued' = issued \cup {c}
        /\ Goto(h, IF c \in issued THEN "add_client_key_to_db"
                                   ELSE "register_new_client")
  BY DEF Begin
<1> DEFINE new == [client |-> c, file |-> f, data |-> uploads', size |-> n,
                   attempt |-> 1]
           place == IF c \in issued THEN "add_client_key_to_db"
                                    ELSE "register_new_client"
<1>2. new \in Jobs /\ new.client = c /\ uploads' \in 0 .. MaxUploads
  BY BoundAssumption DEF Begin, TypeOK, Jobs
<1>3. place \in Calls /\ place \in Places \ {"write"}
          /\ place # "set_file_verified" /\ place # "idle"
  BY DEF Calls, Places
<1>4. pc[h] = "idle" /\ job' = [job EXCEPT ![h] = new] /\ Goto(h, place)
  BY <1>1 DEF Begin
<1> HIDE DEF new, place
<1>5. TypeOK'
  <2>1. HandlersOK'
    BY <1>2, <1>3, <1>4, NoJobIsNone, MoveType
  <2>2. lock' = lock /\ (lock # NoOne => lock # h)
    BY <1>4 DEF Begin, TypeOK, Calls
  <2>3. lock' # NoOne => lock' \in Handlers /\ pc'[lock'] \in Calls
    BY <1>4, <2>2 DEF TypeOK, Goto
  <2> QED
    BY <1>1, <1>2, <2>1, <2>3 DEF Begin, historyVars, TypeOK, HandlersOK
<1>6. JobsAreIssued'
  BY <1>1, <1>2, <1>4 DEF Goto, JobsAreIssued, TypeOK
<1>7. MarkersHaveSaved'
  BY <1>3, <1>4 DEF Begin, historyVars, Goto, MarkersHaveSaved, TypeOK
<1>8. VerifiedIsBacked'
  BY SameRows DEF Begin, historyVars
<1>9. FilesAreWhole'
  <2>1. \A file : Writers(file)' = Writers(file)
    BY <1>3, <1>4, SameWriters
  <2> QED
    BY <2>1, SameFiles DEF Begin, historyVars
<1> QED
  BY <1>5, <1>6, <1>7, <1>8, <1>9

(* Taking the lock changes nothing else. *)
LEMMA AcquireIInv ==
    ASSUME IInv, NEW h \in Handlers, Acquire(h)
    PROVE  IInv'
<1> USE DEF IInv, Acquire, handlerVars, historyVars
<1>1. TypeOK'
  BY DEF TypeOK
<1>2. JobsAreIssued' /\ MarkersHaveSaved'
  BY DEF JobsAreIssued, MarkersHaveSaved
<1>3. VerifiedIsBacked'
  BY SameRows
<1>4. FilesAreWhole'
  BY SameFiles DEF Writers
<1> QED
  BY <1>1, <1>2, <1>3, <1>4

(* What an operation of the database does to the rows is backed by what    *)
(* its handler has saved.                                                  *)
LEMMA StatementRows ==
    ASSUME IInv, NEW h \in Handlers, pc[h] \in Calls, Statement(h),
           saved' = saved
    PROVE  rows' \subseteq [job : Jobs, verified : BOOLEAN] /\ VerifiedIsBacked'
<1> USE DEF IInv
<1>1. job[h] \in Jobs
  BY AtWork DEF Calls
<1>2. CASE pc[h] = "register_new_file"
  <2>1. rows' = rows \cup {[job |-> job[h], verified |-> FALSE]}
    BY <1>2 DEF Statement
  <2> DEFINE new == [job |-> job[h], verified |-> FALSE]
  <2>2. new \in [job : Jobs, verified : BOOLEAN] /\ new.verified = FALSE
    BY <1>1
  <2>3. rows' = rows \cup {new}
    BY <2>1
  <2> HIDE DEF new
  <2>4. rows' \subseteq [job : Jobs, verified : BOOLEAN]
    BY <2>2, <2>3 DEF TypeOK
  <2>5. VerifiedIsBacked'
    BY <2>2, <2>3 DEF VerifiedIsBacked
  <2> QED
    BY <2>4, <2>5
<1>3. CASE pc[h] = "set_file_verified"
  <2>1. rows' = Marked(job[h]) /\ job[h] \in saved
    BY <1>3 DEF Statement, MarkersHaveSaved
  <2>2. ASSUME NEW r \in rows'
        PROVE  /\ r \in [job : Jobs, verified : BOOLEAN]
               /\ r.verified => \E j \in saved : j.client = r.job.client
                                              /\ j.file = r.job.file
    <3>1. PICK q \in rows :
            r = [q EXCEPT !.verified = @ \/ (q.job.client = job[h].client
                                              /\ q.job.file = job[h].file)]
      BY <2>1 DEF Marked
    <3>2. q \in [job : Jobs, verified : BOOLEAN]
      BY DEF TypeOK
    <3>3. r \in [job : Jobs, verified : BOOLEAN] /\ r.job = q.job
      BY <3>1, <3>2
    <3>4. r.verified => q.verified \/ (q.job.client = job[h].client
                                        /\ q.job.file = job[h].file)
      BY <3>1, <3>2
    <3> QED
      BY <2>1, <3>3, <3>4 DEF VerifiedIsBacked
  <2> QED
    BY <2>2 DEF VerifiedIsBacked
<1>4. CASE pc[h] \notin {"register_new_file", "set_file_verified"}
  <2>1. rows' = rows
    BY <1>4 DEF Statement
  <2> QED
    BY <2>1, SameRows DEF TypeOK
<1> QED
  BY <1>2, <1>3, <1>4

(* A handler that quits was not writing, and leaves the rest as it is. *)
LEMMA QuitMoves ==
    ASSUME IInv, NEW h \in Handlers, pc[h] # "write", Quit(h)
    PROVE  /\ HandlersOK'
           /\ \A f : Writers(f)' = Writers(f)
           /\ issued' = issued => JobsAreIssued'
           /\ saved' = saved => MarkersHaveSaved'
           /\ \A g \in Handlers \ {h} : pc'[g] = pc[g]
<1> USE DEF IInv
<1>1. Goto(h, "idle") /\ job' = [job EXCEPT ![h] = NoJob]
        /\ "idle" \in Places \ {"write"}
  BY DEF Quit, Places
<1>2. HandlersOK'
  BY QuitType
<1>3. \A f : Writers(f)' = Writers(f)
  BY <1>1, SameWriters
<1> QED
  BY <1>1, <1>2, <1>3 DEF Goto, JobsAreIssued, MarkersHaveSaved, TypeOK

(* An operation leaves its handler at work on what it was at, or without   *)
(* work, and never about to write.                                         *)
LEMMA ReturnMoves ==
    ASSUME IInv, NEW h \in Handlers, pc[h] \in Calls, Return(h)
    PROVE  /\ HandlersOK'
           /\ \A f : Writers(f)' = Writers(f)
           /\ issued' = issued => JobsAreIssued'
           /\ saved' = saved => MarkersHaveSaved'
<1> USE DEF IInv
<1>1. pc[h] # "write" /\ pc[h] # "idle"
  BY DEF Calls
<1>2. CASE Quit(h)
  BY <1>1, <1>2, QuitMoves
<1>3. CASE Goto(h, Following[pc[h]]) /\ job' = job /\ pc[h] \in DOMAIN Following
  <2> DEFINE place == Following[pc[h]]
  <2>1. place \in Places \ {"write"} /\ place # "idle"
          /\ place # "set_file_verified"
    BY <1>3 DEF Following, Places, Calls
  <2>2. Goto(h, place) /\ job' = job
    BY <1>3
  <2> HIDE DEF place
  <2>3. HandlersOK'
    BY <1>1, <2>1, <2>2, StayType
  <2>4. \A f : Writers(f)' = Writers(f)
    BY <1>1, <2>1, <2>2, SameWriters
  <2> QED
    BY <1>1, <2>1, <2>2, <2>3, <2>4
    DEF Goto, JobsAreIssued, MarkersHaveSaved, TypeOK
<1> QED
  BY <1>2, <1>3 DEF Return

(* A handler that holds the lock executes a statement and lets go of it. *)
LEMMA ExecuteIInv ==
    ASSUME IInv, NEW h \in Handlers, Execute(h)
    PROVE  IInv'
<1> USE DEF IInv
<1>1. pc[h] \in Calls /\ pc[h] # "idle" /\ pc[h] # "write" /\ lock' = NoOne
  BY OwnerAssumption DEF Execute, TypeOK, Calls
<1>2. UNCHANGED <<disk, issued, uploads, saved, spoiled>>
  BY DEF Execute, historyVars
<1>3. ASSUME HandlersOK', clients' \subseteq issued,
             rows' \subseteq [job : Jobs, verified : BOOLEAN]
      PROVE  TypeOK'
  BY <1>1, <1>2, <1>3 DEF TypeOK, HandlersOK
<1>4. CASE /\ section[h] = 1
           /\ Statement(h)
           /\ section' = [section EXCEPT ![h] = 2]
           /\ UNCHANGED <<pc, job>>
  <2>1. HandlersOK'
    BY <1>4 DEF TypeOK, HandlersOK
  <2>2. clients' \subseteq issued
    BY <1>1, <1>4 DEF Statement, TypeOK, JobsAreIssued
  <2>3. rows' \subseteq [job : Jobs, verified : BOOLEAN] /\ VerifiedIsBacked'
    BY <1>1, <1>2, <1>4, StatementRows
  <2>4. JobsAreIssued' /\ MarkersHaveSaved'
    BY <1>2, <1>4 DEF JobsAreIssued, MarkersHaveSaved
  <2>5. FilesAreWhole'
    BY <1>2, <1>4, SameFiles DEF Writers
  <2> QED
    BY <1>3, <2>1, <2>2, <2>3, <2>4, <2>5
<1>5. CASE (Return(h) \/ Quit(h)) /\ UNCHANGED <<clients, rows>>
  <2>1. Return(h) \/ Quit(h)
    BY <1>5
  <2>2. /\ HandlersOK'
        /\ \A f : Writers(f)' = Writers(f)
        /\ JobsAreIssued' /\ MarkersHaveSaved'
    BY <1>1, <1>2, <2>1, ReturnMoves, QuitMoves
  <2>3. FilesAreWhole' /\ VerifiedIsBacked'
    BY <1>2, <1>5, <2>2, SameFiles, SameRows
  <2> QED
    BY <1>3, <1>5, <2>2, <2>3 DEF TypeOK
<1> QED
  BY <1>4, <1>5 DEF Execute

(* The client of a handler decides how it goes on. *)
LEMMA ConfirmIInv ==
    ASSUME IInv, NEW h \in Handlers, Confirm(h)
    PROVE  IInv'
<1> USE DEF IInv
<1>1. pc[h] # "idle" /\ pc[h] # "write" /\ lock # h
  BY OwnerAssumption DEF Confirm, TypeOK, Calls
<1>2. UNCHANGED <<lock, clients, rows, disk, issued, uploads, saved, spoiled>>
  BY DEF Confirm, historyVars
<1>3. job[h] \in Jobs
  BY <1>1, AtWork
<1>4. /\ HandlersOK'
      /\ \A f : Writers(f)' = Writers(f)
      /\ JobsAreIssued' /\ MarkersHaveSaved'
      /\ \A g \in Handlers \ {h} : pc'[g] = pc[g]
  <2>1. CASE Goto(h, "open") /\ UNCHANGED job
    <3>1. "open" \in Places \ {"write"}
      BY DEF Places
    <3>2. HandlersOK' /\ \A f : Writers(f)' = Writers(f)
      BY <1>1, <2>1, <3>1, StayType, SameWriters
    <3> QED
      BY <1>1, <1>2, <2>1, <3>2 DEF Goto, JobsAreIssued, MarkersHaveSaved, TypeOK
  <2>2. CASE /\ job[h].attempt < MaxAttempts
             /\ Goto(h, "register_new_file")
             /\ job' = [job EXCEPT ![h].attempt = @ + 1]
    <3> DEFINE again == [job[h] EXCEPT !.attempt = @ + 1]
    <3>1. "register_new_file" \in Places \ {"write"}
      BY DEF Places, Calls
    <3>2. again \in Jobs /\ again.client = job[h].client
      BY <1>3, <2>2, BoundAssumption DEF Jobs
    <3>3. job' = [job EXCEPT ![h] = again] /\ Goto(h, "register_new_file")
      BY <2>2
    <3> HIDE DEF again
    <3>4. HandlersOK' /\ \A f : Writers(f)' = Writers(f)
      BY <1>1, <3>1, <3>2, <3>3, NoJobIsNone, MoveType, SameWriters
    <3> QED
      BY <1>1, <1>2, <3>2, <3>3, <3>4
      DEF Goto, JobsAreIssued, MarkersHaveSaved, TypeOK
  <2>3. CASE Quit(h)
    BY <1>1, <1>2, <2>3, QuitMoves
  <2> QED
    BY <2>1, <2>2, <2>3 DEF Confirm
<1>5. TypeOK'
  <2>1. lock # NoOne => lock \in Handlers /\ pc'[lock] \in Calls
    BY <1>1, <1>4 DEF TypeOK
  <2> QED
    BY <1>2, <1>4, <2>1 DEF TypeOK, HandlersOK
<1>6. FilesAreWhole' /\ VerifiedIsBacked'
  BY <1>2, <1>4, SameFiles, SameRows
<1> QED
  BY <1>4, <1>5, <1>6

(* Opening a file empties it; a file that has a writer already is spoiled. *)
LEMMA OpenIInv ==
    ASSUME IInv, NEW h \in Handlers, Open(h)
    PROVE  IInv'
<1> USE DEF IInv
<1>1. pc[h] = "open" /\ lock # h /\ job[h] \in Jobs
  BY OwnerAssumption, AtWork DEF Open, TypeOK, Calls
<1>b. PICK f \in Files : f = job[h].file
  BY <1>1 DEF Jobs
<1>2. UNCHANGED <<lock, clients, rows, issued, uploads, saved>>
  BY DEF Open
<1>3. CASE Quit(h) /\ UNCHANGED <<disk, spoiled>>
  <2>1. /\ HandlersOK'
        /\ \A file : Writers(file)' = Writers(file)
        /\ JobsAreIssued' /\ MarkersHaveSaved'
        /\ \A g \in Handlers \ {h} : pc'[g] = pc[g]
    BY <1>1, <1>2, <1>3, QuitMoves
  <2>2. lock # NoOne => lock \in Handlers /\ pc'[lock] \in Calls
    BY <1>1, <2>1 DEF TypeOK
  <2>3. TypeOK'
    BY <1>2, <1>3, <2>1, <2>2 DEF TypeOK, HandlersOK
  <2>4. FilesAreWhole' /\ VerifiedIsBacked'
    BY <1>2, <1>3, <2>1, SameFiles, SameRows
  <2> QED
    BY <2>1, <2>3, <2>4
<1>4. CASE /\ disk' = [disk EXCEPT ![f] = <<>>]
           /\ spoiled' = IF Writers(f) = {} THEN spoiled \ {f}
                                           ELSE spoiled \cup {f}
           /\ Goto(h, "write")
           /\ UNCHANGED job
  <2>1. HandlersOK'
    BY <1>1, <1>4, StayType DEF Places
  <2>2. lock # NoOne => lock \in Handlers /\ pc'[lock] \in Calls
    BY <1>1, <1>4 DEF TypeOK, Goto
  <2>3. disk' \in [Files -> Seq(1 .. MaxUploads)] /\ spoiled' \subseteq Files
    BY <1>1, <1>4 DEF TypeOK
  <2>4. TypeOK'
    BY <1>2, <2>1, <2>2, <2>3 DEF TypeOK, HandlersOK
  <2>5. JobsAreIssued' /\ MarkersHaveSaved'
    BY <1>1, <1>2, <1>4 DEF Goto, JobsAreIssued, MarkersHaveSaved, TypeOK
  <2>6. VerifiedIsBacked'
    BY <1>2, SameRows
  <2>7. Writers(f)' = Writers(f) \cup {h}
    <3>1. pc'[h] = "write" /\ job'[h].file = f
      BY <1>b, <1>4 DEF Goto, TypeOK
    <3>2. \A g \in Handlers \ {h} : pc'[g] = pc[g] /\ job' = job
      BY <1>4 DEF Goto, TypeOK
    <3> QED
      BY <3>1, <3>2 DEF Writers
  <2>8. \A file \in Files \ {f} : Writers(file)' = Writers(file)
    <3>1. \A g \in Handlers \ {h} : pc'[g] = pc[g] /\ job' = job
      BY <1>4 DEF Goto, TypeOK
    <3>2. \A file \in Files \ {f} : job[h].file # file /\ job'[h].file # file
      BY <1>b, <1>4
    <3> QED
      BY <3>1, <3>2 DEF Writers
  <2>9. FilesAreWhole'
    <3> SUFFICES ASSUME NEW file \in Files \ spoiled' PROVE Whole(file)'
      BY DEF FilesAreWhole
    <3>1. CASE file = f
      <4>1. Writers(f) = {}
        BY <1>4, <3>1
      <4>2. Writers(f)' = {h} /\ disk'[f] = <<>>
        BY <1>1, <1>4, <2>7, <4>1 DEF TypeOK
      <4> QED
        BY <3>1, <4>2 DEF Whole
    <3>2. CASE file # f
      <4>1. file \in Files \ spoiled
        BY <1>4, <3>2
      <4>2. Writers(file)' = Writers(file) /\ disk'[file] = disk[file]
        BY <1>4, <2>8, <3>2 DEF TypeOK
      <4> QED
        BY <1>2, <4>1, <4>2 DEF FilesAreWhole, Whole, HoldsOneUpload
    <3> QED
      BY <3>1, <3>2
  <2> QED
    BY <2>4, <2>5, <2>6, <2>9
<1> QED
  BY <1>b, <1>3, <1>4 DEF Open, Truncated

(* Writing an unspoiled file to the end makes it whole; a write that fails *)
(* spoils it.                                                              *)
LEMMA WriteIInv ==
    ASSUME IInv, NEW h \in Handlers, Write(h)
    PROVE  IInv'
<1> USE DEF IInv
<1>1. pc[h] = "write" /\ lock # h /\ job[h] \in Jobs
  BY OwnerAssumption, AtWork DEF Write, TypeOK, Calls
<1>2. UNCHANGED <<lock, clients, rows, issued, uploads>>
  BY DEF Write
<1>a. PICK j \in Jobs : j = job[h]
  BY <1>1
<1>b. PICK f \in Files : f = j.file
  BY DEF Jobs
<1>3. j.data \in 1 .. MaxUploads /\ j.size \in Nat
  BY BoundAssumption DEF Jobs
<1>4. \E n \in Nat, place \in {"set_file_verified", "idle"},
          v \in {j, NoJob} :
        /\ disk' = [disk EXCEPT ![f] = Overwrite(@, j.data, n)]
        /\ Goto(h, place)
        /\ job' = [job EXCEPT ![h] = v]
        /\ v = NoJob <=> place = "idle"
        /\ \/ /\ place = "set_file_verified"
              /\ n = j.size
              /\ saved' = saved \cup {j}
              /\ spoiled' = spoiled
           \/ /\ place = "idle"
              /\ saved' = saved
              /\ spoiled' = spoiled \cup {f}
  <2>1. CASE /\ disk' = [disk EXCEPT ![j.file] = Overwrite(@, j.data, j.size)]
             /\ saved' = saved \cup {j}
             /\ Goto(h, "set_file_verified")
             /\ UNCHANGED <<job, spoiled>>
    <3>1. job' = [job EXCEPT ![h] = j] /\ j # NoJob
      BY <1>a, <2>1, NoJobIsNone DEF TypeOK
    <3> QED
      BY <1>3, <1>b, <2>1, <3>1
  <2>2. CASE /\ \E n \in 0 .. j.size - 1 :
                  disk' = [disk EXCEPT ![j.file] = Overwrite(@, j.data, n)]
             /\ spoiled' = spoiled \cup {j.file}
             /\ Quit(h)
             /\ UNCHANGED saved
    <3>1. PICK n \in 0 .. j.size - 1 :
            disk' = [disk EXCEPT ![j.file] = Overwrite(@, j.data, n)]
      BY <2>2
    <3>2. n \in Nat
      BY <1>3
    <3> QED
      BY <1>b, <2>2, <3>1, <3>2 DEF Quit
  <2> QED
    BY <1>a, <2>1, <2>2 DEF Write
<1>5. PICK n \in Nat, place \in {"set_file_verified", "idle"}, v \in {j, NoJob} :
        /\ disk' = [disk EXCEPT ![f] = Overwrite(@, j.data, n)]
        /\ Goto(h, place)
        /\ job' = [job EXCEPT ![h] = v]
        /\ v = NoJob <=> place = "idle"
        /\ \/ /\ place = "set_file_verified"
              /\ n = j.size
              /\ saved' = saved \cup {j}
              /\ spoiled' = spoiled
           \/ /\ place = "idle"
              /\ saved' = saved
              /\ spoiled' = spoiled \cup {f}
  BY <1>4
<1>6. job[h] = j /\ f = j.file
  BY <1>a, <1>b
<1>7. TypeOK'
  <2>1. HandlersOK'
    BY <1>5, <1>6, MoveType DEF Places, Calls
  <2>2. lock # NoOne => lock \in Handlers /\ pc'[lock] \in Calls
    BY <1>1, <1>5 DEF TypeOK, Goto
  <2>3. Overwrite(disk[f], j.data, n) \in Seq(1 .. MaxUploads)
    BY <1>3, <1>6, OverwriteType DEF TypeOK
  <2>4. disk' \in [Files -> Seq(1 .. MaxUploads)]
    BY <1>5, <1>6, <2>3 DEF TypeOK
  <2>5. saved' \subseteq Jobs /\ spoiled' \subseteq Files
    BY <1>5, <1>6 DEF TypeOK
  <2> QED
    BY <1>2, <2>1, <2>2, <2>4, <2>5 DEF TypeOK, HandlersOK
<1>8. JobsAreIssued'
  BY <1>1, <1>2, <1>5, <1>6 DEF Goto, JobsAreIssued, TypeOK
<1>9. MarkersHaveSaved'
  BY <1>1, <1>5, <1>6 DEF Goto, MarkersHaveSaved, TypeOK
<1>10. VerifiedIsBacked'
  BY <1>2, <1>5, SameRows
<1>11. Writers(f)' = Writers(f) \ {h} /\ h \in Writers(f)
  <2>1. pc'[h] # "write" /\ \A g \in Handlers \ {h} :
                                pc'[g] = pc[g] /\ job'[g] = job[g]
    BY <1>5 DEF Goto, TypeOK
  <2> QED
    BY <1>1, <1>6, <2>1 DEF Writers
<1>12. \A file \in Files \ {f} : Writers(file)' = Writers(file)
  <2>1. pc'[h] # "write" /\ \A g \in Handlers \ {h} :
                                pc'[g] = pc[g] /\ job'[g] = job[g]
    BY <1>5 DEF Goto, TypeOK
  <2> QED
    BY <1>1, <1>6, <2>1 DEF Writers
<1>13. FilesAreWhole'
  <2> SUFFICES ASSUME NEW file \in Files \ spoiled' PROVE Whole(file)'
    BY DEF FilesAreWhole
  <2>1. file \in Files \ spoiled /\ Whole(file)
    BY <1>5 DEF FilesAreWhole
  <2>2. CASE file = f
    <3>1. n = j.size /\ saved' = saved \cup {j}
      BY <1>5, <2>2
    <3>2. Writers(f) = {h} /\ disk[f] = <<>>
      BY <1>11, <2>1, <2>2 DEF Whole
    <3>3. Writers(f)' = {}
      BY <1>11, <3>2
    <3>4. disk'[f] = [i \in 1 .. j.size |-> j.data]
      BY <1>3, <1>5, <1>6, <3>1, <3>2, OverwriteEmpty DEF TypeOK
    <3>5. HoldsOneUpload(f)'
      BY <1>6, <3>1, <3>4 DEF HoldsOneUpload
    <3> QED
      BY <2>2, <3>3, <3>5 DEF Whole
  <2>3. CASE file # f
    <3>1. Writers(file)' = Writers(file) /\ disk'[file] = disk[file]
      BY <1>5, <1>12, <2>3 DEF TypeOK
    <3>2. (\E s \in saved' : s.file = file) => \E s \in saved : s.file = file
      BY <1>5, <1>6, <2>3
    <3>3. HoldsOneUpload(file) => HoldsOneUpload(file)'
      BY <1>5, <3>1 DEF HoldsOneUpload
    <3> QED
      BY <2>1, <3>1, <3>2, <3>3 DEF Whole
  <2> QED
    BY <2>2, <2>3
<1> QED
  BY <1>7, <1>8, <1>9, <1>10, <1>13

(* After a restart there are no rows and no writers, and the files that    *)
(* were being written are spoiled.                                         *)
LEMMA RestartIInv ==
    ASSUME IInv, Restart
    PROVE  IInv'
<1> USE DEF IInv, Restart
<1>1. TypeOK'
  BY DEF TypeOK, Places
<1>2. JobsAreIssued' /\ MarkersHaveSaved' /\ VerifiedIsBacked'
  BY DEF JobsAreIssued, MarkersHaveSaved, VerifiedIsBacked
<1>3. FilesAreWhole'
  <2> SUFFICES ASSUME NEW file \in Files \ spoiled' PROVE Whole(file)'
    BY DEF FilesAreWhole
  <2>1. file \in Files \ spoiled /\ Writers(file) = {} /\ Whole(file)
    BY DEF FilesAreWhole
  <2>2. Writers(file)' = {}
    BY DEF Writers
  <2> QED
    BY <2>1, <2>2 DEF Whole, HoldsOneUpload
<1> QED
  BY <1>1, <1>2, <1>3

(* No step leaves the invariant. *)
LEMMA NextIInv == IInv /\ [Next]_vars => IInv'
<1> SUFFICES ASSUME IInv, [Next]_vars PROVE IInv'
  OBVIOUS
<1>1. ASSUME NEW h \in Handlers, Begin(h) \/ Proceed(h) \/ Confirm(h)
      PROVE  IInv'
  BY <1>1, BeginIInv, AcquireIInv, ExecuteIInv, OpenIInv, WriteIInv,
     ConfirmIInv DEF Proceed
<1>2. CASE Restart
  BY <1>2, RestartIInv
<1>3. CASE UNCHANGED vars
  BY <1>3 DEF vars, handlerVars, historyVars, IInv, TypeOK, JobsAreIssued,
     MarkersHaveSaved, VerifiedIsBacked, FilesAreWhole, Whole, Writers,
     HoldsOneUpload
<1> QED
  BY <1>1, <1>2, <1>3 DEF Next, Ended

-----------------------------------------------------------------------------
(* The theorems. *)

(* The invariant holds in every state. *)
THEOREM StoreInvariant == Spec => []IInv
<1> QED
  BY InitIInv, NextIInv, PTL DEF Spec

(* However many threads there are, and whatever fails: every variable has  *)
(* its type, and db_write_lock is held only by a thread that is at one of  *)
(* the statements it guards.                                               *)
THEOREM StoreTypeCorrect == Spec => []TypeOK
<1>1. IInv => TypeOK
  BY DEF IInv
<1> QED
  BY <1>1, StoreInvariant, PTL

(* set_file_verified never marks a row of a client for which no file of    *)
(* that name was ever saved.                                               *)
THEOREM MarksAreBacked == Spec => []VerifiedIsBacked
<1>1. IInv => VerifiedIsBacked
  BY DEF IInv
<1> QED
  BY <1>1, StoreInvariant, PTL

(* save_file leaves the whole of one upload under the name, unless its     *)
(* last writers overlapped, failed or died.                                *)
THEOREM SavesAreWhole == Spec => []UnspoiledIsWhole
<1>1. IInv => UnspoiledIsWhole
  BY DEF IInv, FilesAreWhole, Whole, UnspoiledIsWhole
<1> QED
  BY <1>1, StoreInvariant, PTL
=============================================================================
