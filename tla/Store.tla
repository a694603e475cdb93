-------------------------------- MODULE Store --------------------------------
(***************************************************************************)
(* What all handler threads share: the ServerDatabase singleton, with one  *)
(* connection, one cursor and one lock, and the directory server_files.    *)
(*                                                                         *)
(* Of a handler there is left what it does to them, in the order in which  *)
(* ClientHandler does it. Each operation of the database consists of two   *)
(* statements, the second of which updates last_seen, and takes the lock   *)
(* for each of them; the lock is not reentrant. A save opens its file,     *)
(* which truncates it, and then writes it, under no lock at all.           *)
(***************************************************************************)
EXTENDS Integers, Sequences

CONSTANTS
    Handlers,     \* the handler threads that there are at a time
    NoOne,        \* the owner of a free lock
    Clients,      \* client ids
    Files,        \* names of files, and so their paths
    Sizes,        \* how many blocks the data of an upload can have
    MaxAttempts,  \* MAX_RETRIES_FILE_RESEND of the client
    MaxUploads,   \* bound: how many uploads are ever begun
    Faults        \* the faults this instance admits

FaultNames ==
    {"dbFails",    \* a statement raises a database error
     "saveFails",  \* a file cannot be opened, or not be written to its end
     "restart"}    \* the server dies and is started again

ASSUME OwnerAssumption == NoOne \notin Handlers
ASSUME BoundAssumption ==
    /\ Sizes \subseteq Nat \ {0}
    /\ MaxAttempts \in Nat \ {0}
    /\ MaxUploads \in Nat
ASSUME FaultAssumption == Faults \subseteq FaultNames

(* A job is one attempt of an upload; its data is named by a number.       *)
Jobs == [client : Clients, file : Files, data : 1 .. MaxUploads,
         size : Sizes, attempt : 1 .. MaxAttempts]
NoJob == [data |-> 0]

(* The operations of the database, and the other places of a handler.      *)
Calls == {"register_new_client", "add_client_key_to_db",
          "register_new_file", "set_file_verified"}
Places == Calls \cup {"idle", "confirm", "open", "write"}

VARIABLES
    pc,         \* where each handler is
    section,    \* which of its two statements an operation is at
    job,        \* what each handler works on
    lock,       \* db_write_lock
    clients,    \* the ids in the clients table
    rows,       \* the files table: the job that each row was made for, and
                \* whether it is marked
    disk,       \* the blocks of each file, <<>> also if there is none
    issued,     \* the ids that have ever been given out
    uploads,    \* how many uploads have begun
    saved,      \* history: the jobs whose save_file returned True
    spoiled     \* history: the files whose last writers overlapped, failed or died

handlerVars == <<pc, section, job>>
historyVars == <<saved, spoiled>>
vars == <<handlerVars, lock, clients, rows, disk, issued, uploads,
          historyVars>>

Goto(h, place) ==
    /\ pc' = [pc EXCEPT ![h] = place]
    /\ section' = [section EXCEPT ![h] = 1]

Quit(h) ==
    /\ Goto(h, "idle")
    /\ job' = [job EXCEPT ![h] = NoJob]

-----------------------------------------------------------------------------
(* The operations of the database. *)

(* __handle_first_message: a client that has no id gets one, under which   *)
(* it is registered; one that has an id, be it of an earlier run of the    *)
(* server, goes on to the keys.                                            *)
Begin(h) ==
    /\ pc[h] = "idle"
    /\ uploads < MaxUploads
    /\ uploads' = uploads + 1
    /\ \E c \in Clients, f \in Files, n \in Sizes :
          /\ job' = [job EXCEPT ![h] =
                        [client |-> c, file |-> f, data |-> uploads',
                         size |-> n, attempt |-> 1]]
          /\ issued' = issued \cup {c}
          /\ Goto(h, IF c \in issued THEN "add_client_key_to_db"
                                     ELSE "register_new_client")
    /\ UNCHANGED <<lock, clients, rows, disk, historyVars>>

(* with self.db_write_lock: *)
Acquire(h) ==
    /\ pc[h] \in Calls
    /\ lock = NoOne
    /\ lock' = h
    /\ UNCHANGED <<handlerVars, clients, rows, disk, issued, uploads,
                   historyVars>>

(* Mutant of Marked: the WHERE clause of set_file_verified only names the  *)
(* file.                                                                   *)
MarkedByName(j) == {[r EXCEPT !.verified = @ \/ r.job.file = j.file] : r \in rows}

(* The rows after set_file_verified: all those of the client and file.     *)
Marked(j) ==
    {[r EXCEPT !.verified = @ \/ (r.job.client = j.client /\ r.job.file = j.file)]
        : r \in rows}

(* The first statement of the operation of h. The two UPDATEs of clients   *)
(* concern columns that are not modelled.                                  *)
Statement(h) ==
    /\ clients' = clients \cup
          (IF pc[h] = "register_new_client" THEN {job[h].client} ELSE {})
    /\ rows' = IF pc[h] = "register_new_file"
                  THEN rows \cup {[job |-> job[h], verified |-> FALSE]}
                ELSE IF pc[h] = "set_file_verified" THEN Marked(job[h])
                ELSE rows

(* Where the handler goes when the operation has returned: to what its     *)
(* client asks for next, if there is still a client.                       *)
Following == [register_new_client  |-> "add_client_key_to_db",
              add_client_key_to_db |-> "register_new_file",
              register_new_file    |-> "confirm"]
Return(h) ==
    \/ /\ pc[h] \in DOMAIN Following
       /\ Goto(h, Following[pc[h]])
       /\ UNCHANGED job
    \/ /\ pc[h] # "register_new_file"
       /\ Quit(h)

(* Mutant of Execute: last_seen is updated before the lock is released, so *)
(* that it is never acquired for the second statement.                     *)
ExecuteNested(h) ==
    /\ lock = h
    /\ section[h] = 1
    /\ Statement(h)
    /\ section' = [section EXCEPT ![h] = 2]
    /\ UNCHANGED <<pc, job, lock, disk, issued, uploads, historyVars>>

(* Mutant of Execute: the lock is not released when a statement fails. *)
ExecuteUnguarded(h) ==
    /\ lock = h
    /\ \/ /\ section[h] = 1
          /\ Statement(h)
          /\ section' = [section EXCEPT ![h] = 2]
          /\ lock' = NoOne
          /\ UNCHANGED <<pc, job>>
       \/ /\ section[h] = 2
          /\ Return(h)
          /\ lock' = NoOne
          /\ UNCHANGED <<clients, rows>>
       \/ /\ "dbFails" \in Faults
          /\ Quit(h)
          /\ UNCHANGED <<lock, clients, rows>>
    /\ UNCHANGED <<disk, issued, uploads, historyVars>>

(* The statement that h holds the lock for. An error in either of them is  *)
(* the end of the handler: raised by add_client_key_to_db,                 *)
(* set_file_verified and __update_last_seen, returned as -1 or False by    *)
(* the others.                                                             *)
Execute(h) ==
    /\ lock = h
    /\ lock' = NoOne
    /\ \/ /\ section[h] = 1
          /\ Statement(h)
          /\ section' = [section EXCEPT ![h] = 2]
          /\ UNCHANGED <<pc, job>>
       \/ /\ section[h] = 2
          /\ Return(h)
          /\ UNCHANGED <<clients, rows>>
       \/ /\ "dbFails" \in Faults
          /\ Quit(h)
          /\ UNCHANGED <<clients, rows>>
    /\ UNCHANGED <<disk, issued, uploads, historyVars>>

-----------------------------------------------------------------------------
(* The upload. *)

(* The client answers the CRC: it confirms, sends the file again, or is    *)
(* done with it or gone.                                                   *)
Confirm(h) ==
    /\ pc[h] = "confirm"
    /\ \/ /\ Goto(h, "open")
          /\ UNCHANGED job
       \/ /\ job[h].attempt < MaxAttempts
          /\ Goto(h, "register_new_file")
          /\ job' = [job EXCEPT ![h].attempt = @ + 1]
       \/ Quit(h)
    /\ UNCHANGED <<lock, clients, rows, disk, issued, uploads,
                   historyVars>>

Writers(f) == {h \in Handlers : pc[h] = "write" /\ job[h].file = f}

(* Mutant of Truncated: the file is opened for update. *)
OpenedForUpdate(f) == disk

(* open(file_path, "wb") makes an empty file of what was there. *)
Truncated(f) == [disk EXCEPT ![f] = <<>>]

Open(h) ==
    /\ pc[h] = "open"
    /\ LET f == job[h].file IN
       \/ /\ disk' = Truncated(f)
          /\ spoiled' = IF Writers(f) = {} THEN spoiled \ {f}
                                          ELSE spoiled \cup {f}
          /\ Goto(h, "write")
          /\ UNCHANGED job
       \/ /\ "saveFails" \in Faults
          /\ Quit(h)
          /\ UNCHANGED <<disk, spoiled>>
    /\ UNCHANGED <<lock, clients, rows, issued, uploads, saved>>

(* The first n blocks of a file are overwritten; what lies behind stays.   *)
Overwrite(old, data, n) ==
    [i \in 1 .. (IF Len(old) > n THEN Len(old) ELSE n) |->
        IF i <= n THEN data ELSE old[i]]

(* Write, and close. A write that fails leaves a part. *)
Write(h) ==
    LET j == job[h] IN
    /\ pc[h] = "write"
    /\ \/ /\ disk' = [disk EXCEPT ![j.file] = Overwrite(@, j.data, j.size)]
          /\ saved' = saved \cup {j}
          /\ Goto(h, "set_file_verified")
          /\ UNCHANGED <<job, spoiled>>
       \/ /\ "saveFails" \in Faults
          /\ \E n \in 0 .. j.size - 1 :
                disk' = [disk EXCEPT ![j.file] = Overwrite(@, j.data, n)]
          /\ spoiled' = spoiled \cup {j.file}
          /\ Quit(h)
          /\ UNCHANGED saved
    /\ UNCHANGED <<lock, clients, rows, issued, uploads>>

(* The server dies and is started again. Nothing was ever committed; the   *)
(* files stay as they are.                                                 *)
Restart ==
    /\ "restart" \in Faults
    /\ pc' = [h \in Handlers |-> "idle"]
    /\ section' = [h \in Handlers |-> 1]
    /\ job' = [h \in Handlers |-> NoJob]
    /\ lock' = NoOne
    /\ clients' = {}
    /\ rows' = {}
    /\ spoiled' = spoiled \cup {f \in Files : Writers(f) # {}}
    /\ UNCHANGED <<disk, issued, uploads, saved>>

-----------------------------------------------------------------------------
Init ==
    /\ pc = [h \in Handlers |-> "idle"]
    /\ section = [h \in Handlers |-> 1]
    /\ job = [h \in Handlers |-> NoJob]
    /\ lock = NoOne
    /\ clients = {}
    /\ rows = {}
    /\ disk = [f \in Files |-> <<>>]
    /\ issued = {}
    /\ uploads = 0
    /\ saved = {}
    /\ spoiled = {}

(* What h does without anybody's help. *)
Proceed(h) == Acquire(h) \/ Execute(h) \/ Open(h) \/ Write(h)

(* All uploads of the instance are over. *)
Ended ==
    /\ uploads = MaxUploads
    /\ \A h \in Handlers : pc[h] = "idle"
    /\ UNCHANGED vars

Next ==
    \/ \E h \in Handlers : Begin(h) \/ Proceed(h) \/ Confirm(h)
    \/ Restart
    \/ Ended

Spec == Init /\ [][Next]_vars

(* Every handler thread is scheduled, and the disk answers; no client is   *)
(* bound to.                                                               *)
FairSpec == Spec /\ \A h \in Handlers : WF_vars(Proceed(h))

-----------------------------------------------------------------------------
(* What must hold. *)

(* Every variable has its type, and the lock belongs to a handler that is  *)
(* at a statement: an error on the way releases it.                        *)
TypeOK ==
    /\ pc \in [Handlers -> Places]
    /\ section \in [Handlers -> 1 .. 2]
    /\ job \in [Handlers -> Jobs \cup {NoJob}]
    /\ \A h \in Handlers : job[h] = NoJob <=> pc[h] = "idle"
    /\ lock # NoOne => lock \in Handlers /\ pc[lock] \in Calls
    /\ clients \subseteq issued /\ issued \subseteq Clients
    /\ rows \subseteq [job : Jobs, verified : BOOLEAN]
    /\ disk \in [Files -> Seq(1 .. MaxUploads)]
    /\ uploads \in 0 .. MaxUploads
    /\ saved \subseteq Jobs
    /\ spoiled \subseteq Files

(* A row is marked only when a file of that name has been saved for that   *)
(* very client: no other client's upload, failure or restart marks it.     *)
VerifiedIsBacked ==
    \A r \in rows : r.verified =>
        \E j \in saved : j.client = r.job.client /\ j.file = r.job.file

(* The content of f is whole: that of one upload, all of it. *)
HoldsOneUpload(f) ==
    \E j \in saved : j.file = f /\ disk[f] = [i \in 1 .. j.size |-> j.data]

(* A file that was ever saved is whole when nobody writes to it, whatever  *)
(* was there before, unless its last writers overlapped, failed or died.   *)
UnspoiledIsWhole ==
    \A f \in Files \ spoiled :
        Writers(f) = {} /\ (\E j \in saved : j.file = f) => HoldsOneUpload(f)

(* Every operation of the database returns, with several threads at the    *)
(* one lock and with errors in between.                                    *)
CallsReturn ==
    \A h \in Handlers : pc[h] \in Calls ~> pc[h] \notin Calls

(* file_handler.py:16 of save_file: when it has returned True and nobody   *)
(* is at it any more, the path holds the data of an upload.                *)
SavedIsStored ==
    \A f \in Files :
        Writers(f) = {} /\ (\E j \in saved : j.file = f) => HoldsOneUpload(f)
=============================================================================
