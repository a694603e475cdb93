# Verification of the Maman15 file upload

A C++ client uploads one file to a Python server over a TCP connection: it
registers a user name, exchanges an RSA public key for a shared AES key, sends
the file encrypted, compares the CRC the server computed with its own, and
tries up to three times. The server has one thread for each connection; all of
them share a database and a directory. This directory holds a TLA+ model of
that program, TLC configurations that check it on small instances, and TLAPS
proofs of its main properties for every instance.

Source paths below are relative to `src/Maman15Server/` (Python) and
`src/Maman15Client/Maman15Client/` (C++).

## 1. Inventory

| Component | Code | State | Operations | What makes it correct |
|---|---|---|---|---|
| Client program | `main.cpp`, `MainClient.cpp` | loop counter, the two CRCs, its result | `runClient`, `sendFileToServer`, `getServerCalculatedCRC`, `handleCRCValidation` | success only for a file the server has and the client has confirmed; a bounded number of attempts; it ends |
| Client file access | `FileHandler.cpp`, `FileUtils.cpp` | none of its own: it reads the user's file several times in each attempt | `validateFileToSend`, `readDataFromFile`, `calculateFileCRC`, `writeToFile` | a change of the file between two reads is found out by the CRC |
| Identity | `ClientInitializer.cpp`, `RegistrationHandler.cpp` | `me.info`, over many runs | `initializeClient`, `registerClient`, `getClientConnectionInfo` | a name has one holder; a client with an identity is served under its own name, also by a restarted server |
| Text files | `ClientInitializer.cpp`, `FileUtils.cpp` | `transfer.info`, `me.info` | `readInformationFile`, `getTransferInformation` | what one run writes the next one reads |
| Key exchange | `EncryptionHandler.cpp` | the AES key | `sendPublicKeyToServer`, `receiveSharedSecret` | client and handler hold the same key |
| Socket | `ClientSocketHandler.cpp` | the connection | blocking `send` and `receive` of a number of bytes that the caller computes | both sides agree on these numbers |
| Wire format | `protocol.py`, `ClientRequest.cpp`, `ServerResponse.cpp` | none | `pack`, `serializeIntoBuffer`, header and payload parsing, `receive_payload` | a message is parsed as what was sent |
| Handler | `client_handler.py` | one thread per connection, its request loop, the decrypted file | `run`, `__handle_client` and the functions under it, `stop` | saves only what was confirmed; leaves its loop when the client is gone |
| Database | `database.py` | SQLite tables `clients` and `files` behind one connection, one cursor, one lock; never committed | `register_new_client`, `add_client_key_to_db`, `register_new_file`, `set_file_verified`, `__update_last_seen` | names are unique; a marked row stands for a save of that client; the lock comes free |
| File store | `file_handler.py` | `server_files/<name>` | `save_file` | a stored file is the whole of one upload |
| Accept loop | `client_connection_handler.py`, `main.py` | the listening socket, the map of handlers | `bind_and_listen_for_clients`, `handle_new_client`, `stop` | every connection gets a handler or is closed, as soon as nothing refers to it; none is closed under its handler |
| Ciphers, encodings | `RSAWrapper`, `AESWrapper`, `Base64Wrapper`, `crypto_handler.py` | none | wrappers of libraries | decryption inverts encryption |
| Server configuration | `utils.py`, `consts.py`, `port.info` | none | parsing at start | - |

How they interact: the client runs in one thread and makes blocking calls; each
connection has one handler thread; all handlers share the `ServerDatabase`
singleton and the directory `server_files`. Client and handler share nothing
but the two byte streams of a connection. Neither has a timeout, and no message
names the one it answers: a response belongs to a request only because both
sides take turns.

What is hard to test here:

* **one step of several failing.** The handler acknowledges, then saves, then
  marks the row; the client sees only the acknowledgement;
* **messages that arrive in part or not at all.** `receive` returns false and
  most callers do not look; `recv(23)` may return less; `receive_payload` takes
  the end of the stream for the end of the payload;
* **framing by agreement.** The client reads 3 of the 7 bytes of one
  acknowledgement, and a handler that gives up sends an acknowledgement that
  nobody asked for;
* **a file that changes while it is uploaded**, between four reads per attempt;
* **0 as "no CRC"**, which is also a CRC;
* **two retry loops** that must agree on which attempt they are in;
* **crashes**: nothing is ever committed, `me.info` and the saved files stay.
* **many threads at one lock and one directory.** Each database operation takes
  the lock twice, and `save_file` takes none;
* **handlers that outlive their clients**, and a map that keeps what is over
  and forgets what runs.

`PROJECT.json` lists each hazard with its line and the properties that cover it.

## 2. Modules

| Module | What it is |
|---|---|
| `Protocol` | request and response codes; how many bytes the server packs for each response, from the two sides' own constants |
| `Session` | one connection: the client program, the handler thread, the two streams, the user's file, and every fault |
| `Upload` | abstract specification: what a session promises, in three actions |
| `Lifecycle` | abstract specification: what the rest of the server has to know of one handler |
| `Registration` | identities: many runs of many clients against a server that is restarted |
| `Registry` | abstract specification: what the clients table promises |
| `Store` | what all handlers share: the database with its lock, and the stored files |
| `Server` | the accept loop, its map of handlers, and the life of every connection |
| `Wire` | the bytes of the messages, laid out by one side and taken apart by the other |
| `InfoFiles` | the two text files of a client, over two runs |
| `SessionInvariant` | the inductive invariant of `Session`, in named parts |
| `SessionProofs`, `RegistrationProofs`, `RegistrationTurnProofs`, `StoreProofs`, `ServerProofs`, `WireProofs`, `InfoFilesProofs` | the theorems |
| `NumberLemmas` | induction, recursion and division on natural numbers, for the proofs of `Wire` and `InfoFiles` |
| `MCSession`, `MCRegistration`, `MCStore`, `MCWire`, `MCInfoFiles` | values for TLC |

How they fit together:

* `Session` implements `Upload` (`KeepsPromise`) and `Lifecycle`
  (`KeepsLifecycle`). `Server` has no handler code of its own: it lets each of its
  connections take the steps of `Lifecycle`, and `KeepsLifecycles` says that the
  accept loop and the map do not take any other with it. That a handler ends,
  which `Server` assumes as fairness, is `Termination` of `Session`.
* `Registration` implements `Registry` (`KeepsRegistry`). Its runs are the first
  half of a session, without the details that `Session` has, but many of them, with
  `me.info` and the table in between.
* `Store` has of each handler the sequence of its calls, and each call statement
  by statement. In `Session` a call is one step of one handler: what that leaves
  out is here.
* `Wire` and `InfoFiles` stand alone: they are about the data that the others take
  as given.

Definitions whose comment begins with "Mutant" are plausible bugs in the
definition that follows them. Nothing uses them; replacing the original by one
must violate the property that `PROJECT.json` lists with it.

### How `Session` corresponds to the code

One action is one blocking call, or one access to the disk, with everything the
program does before the next one. The client's place is `cpc`, the handler's
`spc`:

| `cpc` | where the client is |
|---|---|
| `start` | `initializeClient`, before the registration is sent |
| `await_registration` | `RegistrationHandler.cpp:28` |
| `save_info` | `ClientInitializer.cpp:101`, me.info not yet written |
| `send_key`, `await_key` | `EncryptionHandler.cpp:25`, `:39` |
| `attempt` | the head of the loop at `MainClient.cpp:175` |
| `read` | `FileHandler.cpp:23`, the file is measured but not read |
| `validate` | `MainClient.cpp:56`, whose two arguments may be evaluated in either order; a CRC that is not yet known is `Unset` |
| `crc_read` | `FileHandler.cpp:153`, the same gap in `calculateFileCRC` |
| `await_ack`, `await_resend`, `await_final` | `MainClient.cpp:150`, `:80`, `:206` |

| `spc` | where the handler is |
|---|---|
| `first`, `await_key`, `await_file`, `await_confirm` | the `recv` at `client_handler.py:78`, `:85`, `:147`, `:192` |
| `saving`, `verifying` | `client_handler.py:201`, `:205` |
| `final_ack` | `client_handler.py:67` |
| `done`, `stopped` | `run()` has returned; `done` is the path on which `stop()` is not called |

* **Streams.** `c2s` and `s2c` are sequences of messages. A response has the
  width `PackedSize(code)`; a receive of `n` bytes takes the response at the
  head if it has that many (`Arrives`) and leaves the rest unread in `skew`.
  When the stream ends first, the receive throws and loses what there was
  (`HangsUp`). A message with `whole = FALSE` has been cut by the end of its
  stream. `read(_sock, ...)` in `ClientSocketHandler.cpp:37` is taken to read
  the socket that the pointer designates.
* **Receives whose result is ignored.** `GetServerCalculatedCRC` ends with 0, with a
  prefix of the CRC, or with an arbitrary CRC when the payload size was cut
  too; the null payload of that case may also end the process (`BadRead`).
* **The file.** `measured` is the size taken before the data is read. When the file
  has another size by then, the buffer holds any content of the measured size,
  and reading past it may end the process (`BadRead`). An empty file is treated
  like a missing one, as `validateFileToSend` does.
* **The CRC** is a function `CrcOf` from contents to numbers that need not be
  injective: the properties are about CRCs, as the program is.
* **The database** is this session's part of it: the client's row of `clients`, how
  many rows of `files` the session has inserted, and whether they are marked.
  A statement may fail (`dbFails`) before or between its two updates.
* **Faults** are events of the world: `Faults` says which of them an instance
  admits. They are the user (`edit`, `remove`), the network (`linkDown`,
  `shortRead`), the processes (`clientCrash`, `serverCrash`), the disks
  (`infoFails`, `saveFails`), the database (`dbFails`) and a name that another
  client has registered (`nameTaken`).
* **History.** `accepted` is the CRC of a confirmation that was put on a live
  connection. No action reads it.

### How `Registration` corresponds to the code

A user is a directory with a `transfer.info` and perhaps a `me.info`; it runs
the client again and again. Each run has a connection of its own, and each
connection a handler.

| `cpc` | where the run is |
|---|---|
| `idle` | there is none |
| `init` | connected, at `ClientInitializer.cpp:82`, before it asks whether `me.info` is there |
| `await_registration`, `save_info` | as in `Session` |
| `send_key`, `await_key` | as in `Session` |
| `served` | it has the key, and uploads |

| `conn[c].pc` | where the handler is |
|---|---|
| `none` | the connection was never made |
| `first`, `await_key` | `client_handler.py:78`, `:85` |
| `serving`, `stopped` | past the key exchange; over |

* **A connection** carries one request and one response at most, since both sides
  take turns. A run that ends leaves its connection to the handler, which may
  still have a request of it: that is how a name is registered for nobody.
* **`uuid4`** is a counter, `issued`: an id is never drawn twice. `floor` is what it
  was when the server was last started, so ids above it are those of this server.
* **The row** of a client has its id, its name and whether it has keys.
* **`me.info`** is `Absent`, `Whole` or `Damaged`, with the identity that was to be
  written (`of`). What a damaged file holds is not looked at: it ends every run that
  reads it. `of` is then history, and says whose file it was. A write that fails is
  not noticed (`FileUtils.cpp:58`); a file that cannot be opened ends the run.
* **User names** are `Names` and the empty one, `NoName`, which is also what a payload
  leaves of a name when it is cut. A user without a name registers like others;
  `main.cpp:18` ends its run only after `initializeClient`, when `me.info` has been
  written or read (`GoOn`). In `Session` the user has a name.
* **A restart** takes all rows (nothing is committed) and all handlers, and loses
  any responses that were on their way.

### How `Store` corresponds to the code

| `pc` | where the handler is |
|---|---|
| `register_new_client`, `add_client_key_to_db`, `register_new_file`, `set_file_verified` | in that operation of `database.py`; `section` 1 is its own statement, 2 is `__update_last_seen` |
| `confirm` | waiting for the client's word on the CRC |
| `open`, `write` | before and after `open(path, "wb")` in `save_file`, which truncates |

A job is one attempt at one upload. A file is a sequence of blocks, each the
number of the upload that wrote it, so that a mixture of two uploads can be told
from either. Two descriptors of one file write at their own offsets: `Overwrite`
replaces the first blocks and leaves those behind. SQLite's own transaction is
never committed, so `Restart` empties both tables and leaves `disk`.

### How `Server` corresponds to the code

`mpc` is the accepting thread: `bind`, `accept`, `create` (in the constructor of
`ClientHandler`, which creates the database when it is the first), `start`
(`client_handler.start()`), `ended`. `hand` is its local variable `client_socket`
(`client_connection_handler.py:26`), which refers to the connection accepted last until
the next `accept()` has returned: a connection that got no handler stays open that
long, and `Released` then closes it. `database` is `broken` when the singleton was set but
its tables were not created, with the exception raised or caught
(`database.py:45`, `:58`): the later handlers get it, and end. `state[k]` is what has
become of a connection:

| `state` | |
|---|---|
| `none`, `queued` | not asked for; in the backlog of `listen` |
| `accepted` | in the hands of the accepting thread |
| `refused` | its handler could not be created; only `client_socket` refers to it |
| `running`, `done`, `stopped` | its thread runs; has returned without `stop()`; has called it |
| `unstarted` | entered in the map, but its thread could not be started |
| `dropped`, `collected` | nothing refers to it any more and the interpreter has closed its socket, before or after its thread |

Sockets in `OpenStates` use a descriptor. A handler that is over stays in the map
until another connection comes from the same address and port; only then, and when
`client_socket` has another connection, can it be collected. A handler that runs and is
pushed out of the map goes on. `Stuck` names what can keep a client waiting for ever:
it is the refused connection in `client_socket`, and nobody else comes or can be accepted;
its thread was not started, and nobody uses its address again; or it is in the backlog
and all descriptors belong to connections that no thread will use.

### How `Wire` and `InfoFiles` correspond to the code

`Wire` takes one message through `Serialize` (the payload structures and
`serializeIntoBuffer`), `Parse` (the slices of `client_handler.py` and
`protocol.py`), `AnswerCrc` and `ReadCrc`. A number keeps its width: it is taken
modulo `Limit`, which is `Base` to the power of `SizeLength`, as a `uint32_t` is;
`Weight` has the powers, as a recursive function. `padStringWithZeroes` does not
cut; `Cut` is the copy of a fixed number of bytes. Two kinds of buffer are too small for
what they get (`HasRoom`). Registration and key requests are laid out in `PACKET_SIZE`
bytes on the stack (`RegistrationHandler.cpp:13`, `EncryptionHandler.cpp:14`), whatever the
length of the user name: the behaviour is then undefined, and the client either dies
(`failed`) or sends what it has laid out, which is in one piece behind the end of the
array. The buffer of a file has `sizeWithPayload` bytes on the heap; when that number
wraps, it is short by nearly 4 GiB, and the run ends as `failed`.

`InfoFiles` runs the client twice: `transfer.info` is read, `me.info` is written, the
user may change `transfer.info`, and both are read again. A file is read into a
buffer without a zero at its end and then used as a C string
(`ClientInitializer.cpp:169`), so `LinesRead` appends what may lie behind it.
The third line of `me.info` is loaded as the private key and compared with nothing
(`:213`): what was written loads, and of any other text both outcomes are possible.
`Hex`, `Unhex`, `Split` and `Atoi` are the conversions, with two digits. The texts are
sequences over `Char`: the characters that the code looks for, and `Letters`, which
stand for all others. Neither file is lost or unreadable between the runs.

## 3. Properties

| Module | Property | Says |
|---|---|---|
| `Session` | `TypeOK` | the type invariant; attempts never pass the limit |
| | `InStep` | every response is read at the call site that asks for exactly its bytes; the four bytes left by `handleCRCValidation` never meet another receive |
| | `CrcIsCurrent` | the CRC that is compared is the one of the data the handler holds, not of an earlier attempt |
| | `SavedIsAccepted` | only data whose CRC the client confirmed is saved |
| | `SuccessWasServed` | `runClient` returns true only when the handler has received data with the client's CRC and its confirmation; never because two failures both give 0 |
| | `VerifiedIsSaved` | a verified row stands for a complete file with the confirmed CRC |
| | `RowPerAttempt` | at most one row of `files` for each attempt |
| | `NobodyWaitsInVain` | while the connection is up, a client that waits finds all the bytes it asks for, or the handler has a request to read or work to do |
| | `IInv` | the inductive invariant of the proofs |
| | `KeepsPromise` | `Session` implements `Upload` under the mapping `confirmed <- accepted`, `stored <- disk`, `outcome` from `cpc` |
| | `KeepsLifecycle` | `Session` implements `Lifecycle` |
| | `Termination` | both programs end, whatever fails |
| | `RetriesAbsorbEdits` | with fewer replacements of the file (by one of the same size) than attempts, the upload succeeds |
| | `TrueMeansUploaded` | what `MainClient.cpp:169` says of `runClient`; violated |
| | `FinishedIsClosed` | what the log line `client_handler.py:50` says; violated |
| `Registration` | `TypeOK` | the types; the ids in the table were drawn by this server |
| | `OneHolder` | no two users own one name on the server that runs now, whatever was lost between them and it |
| | `PresentsOwnName` | the handler believes the id in a request; it is never the row of another name |
| | `KeyedIsHeld` | a row gets its keys only after the user it was made for has written `me.info` with its name and id, even if that write failed: an id that was lost half way never gets a key |
| | `KeepsRegistry` | the table implements `Registry` |
| | `RowsAreHeld` | without faults no name is taken in vain, not even by a restart |
| | `RunsAreServed` | without faults a run gets its key if its `me.info` fits its name, also from a server that has lost it, or if its name is not somebody else's |
| | `KeyedIsKept` | what `FileUtils.cpp:47` says of `writeToFile`, seen at the table: the id of a keyed row is in a `me.info` that can be read; violated |
| `Store` | `TypeOK` | the types; the lock belongs to a handler that is at a statement |
| | `VerifiedIsBacked` | a row is marked only when a file of that name was saved for that client |
| | `UnspoiledIsWhole` | a saved file is the whole of one upload, unless its last writers overlapped, failed or died |
| | `CallsReturn` | every database operation returns |
| | `SavedIsStored` | what `file_handler.py:16` says of `save_file`; violated |
| `Server` | `TypeOK` | the types; the accepted connection and the queue, and the descriptors in use |
| | `KeepsLifecycles` | each connection goes through the `Lifecycle` that `Session` implements: no socket is closed under a running handler |
| | `OnlyLastIsHeld` | of the connections for which no handler could be created only the one accepted last is open; the clients of the others have found out |
| | `EveryoneIsServed` | whoever is in the backlog gets a handler that ends, or is closed, or is `Stuck` from some time on for ever: a reason to wait that goes away is never outlived by the wait |
| `Wire` | `TypeOK` | the types; the size in the header is the number of bytes behind it |
| | `FittingArrive` | what fits its fields and a `uint32_t` arrives as it was sent. A user name that is too long is registered without its end, and its end and the beginning of the key are taken for the key, as long as both have room in the 1024 bytes on the stack; a request whose user name fits its field is never lost; a longer file name is cut; a file is lost if and only if the size does not fit |
| | `CrcArrives` | the client reads the CRC that was packed, for every name |
| `InfoFiles` | `NextRunAccepts` | the second run is let through only for the user of the first one, with the id it was given; and is refused only for another user or for what lay behind a buffer |

## 4. Runs

| Run | Instance | Shows | Distinct states |
|---|---|---|---|
| `SessionFaults` | three contents, three attempts, two edits, every fault | the safety properties, the invariant, both refinements, `Termination` | 638 784 |
| `SessionEdits` | two contents of one size, three attempts, two edits, no other fault | `RetriesAbsorbEdits` | 1 468 |
| `SessionUploaded` | two contents, a disk that may refuse the file | a counterexample to `TrueMeansUploaded` | - |
| `SessionClosed` | two contents, no fault | a counterexample to `FinishedIsClosed` | - |
| `RegistrationFaults` | two users, two names, three connections, with and without a user name, a restart, a rename, every fault | the safety properties and the refinement | 1 910 099 |
| `RegistrationServes` | the same without faults and renames | `RowsAreHeld`, `RunsAreServed` | 126 519 |
| `RegistrationDamages` | two users, no restart, no fault but `infoFails` | a counterexample to `KeyedIsKept` | - |
| `StoreFaults` | two handlers, clients and files, two uploads of one or two blocks in up to two attempts, every fault | the safety properties, `CallsReturn` | 217 284 |
| `StoreMixes` | one file, one attempt, no fault | a counterexample to `SavedIsStored` | - |
| `ServerServes` | four connections, two addresses, a backlog of two, two descriptors, every fault | all properties of `Server` | 544 163 |
| `WireArrives` | four values of a byte, numbers of two bytes, file names of up to three, user names of up to nineteen, files of up to fifteen | all properties of `Wire` | 125 058 |
| `InfoFilesAccept` | five characters, user names of up to two, three kinds of garbage | `NextRunAccepts` | 57 724 |

**Bounds, and why they are enough.**

* `Session`: `MaxRetries` is the code's own constant, 3. `MaxEdits` is the only bound
  that the program does not have: two edits change the file before and after a read,
  and bring back the old content. Three contents are needed: one
  with CRC 0, one whose CRC has a proper prefix, one of another size. The streams
  are bounded by the program itself (at most one request and two responses).
* `Registration`: `Conns` bounds how many runs there are in all, `MaxRestarts` and
  `MaxRenames` the events of the server and the users. Two users are needed for a
  contest about a name, three connections for a run whose handler is still at
  work, one of the other user, and a second run. The empty user name comes on top of
  the two names. `RegistrationFaults` and `RegistrationDamages` use the symmetry of users,
  names and connections, which are only compared; `RegistrationServes` has a liveness
  property and uses none.
* `Store`: `MaxUploads` bounds the uploads. Two handlers contend for the lock and
  for a path; two sizes let the shorter of two uploads leave the end of the longer
  one; a second upload finds the file of the first.
* `Server`: `Conns` bounds the connections. Four of them fill the descriptors and the
  backlog, use an address twice, and let one be refused while others come.
* `Wire` is on a small scale. Only the ends of fields and numbers matter, and they
  are all passed: names shorter than, as long as and longer than their field, and
  files on both sides of the size at which `sizeWithPayload` wraps, and of the one
  at which the size itself does; user names on both sides of the length at which a
  registration, and a key request, fill the buffer on the stack, and of the one at which
  a registration exceeds a `uint32_t`.
* `InfoFiles`: two characters can make every separator of a line and of an address,
  and a zero, appear anywhere in a user name.

**Deadlock** is checked in the runs of `Session`, `Registration` and `Store`: `Ended` is
there the only step of a state in which everything is over, so a state in which
somebody waits for ever is found. It is not checked in `ServerServes`, where the
accept loop waits for connections when there are no more in the instance, and in
`WireArrives` and `InfoFilesAccept`, whose one message, or two runs, come to an end.

**Fairness.** Threads are those of an operating system, which runs every runnable
one sooner or later. Waiting for a message, a lock or a connection is a disabled
action, so weak fairness grants no answer.

* `Session`: the client's thread and the handler's, each as a whole. Nothing is
  asked of the user or of the faults. One assumption is in the model and not in
  the fairness: when a peer has gone or the connection has been reset, a blocked
  receive finds out. The code sets neither a timeout nor keep-alive, so a peer that
  vanishes without a FIN or RST would block the other for ever.
  `RetriesAbsorbEdits` needs its precondition on `me.info` (a damaged one ends the
  program at once) and on the file (a missing one costs all attempts).
* `Registration`: every client process and every handler. No user is bound to run
  the client.
* `Store`: each handler at the places where it waits for nobody but the lock and the
  disk (`Proceed`). No client is bound to answer. Weak fairness is enough for the
  lock, since each call in the instance that holds it gives it back and there are
  finitely many; a lock that starves one of infinitely many callers is not ruled out.
* `Server`: the accepting thread, and each handler, which comes to an end by
  `Termination`. No client is bound to connect or to leave.

**What the four violations show.** `TrueMeansUploaded`: the acknowledgement at
`client_handler.py:196` precedes the save at `:201`, so the client reports a
success of a file that the server then fails to store. `FinishedIsClosed`:
`run()` calls `stop()` only when `__handle_client` returns False, and the
successful path returns True; the map in `client_connection_handler.py:45` keeps
the socket from being collected. `Upload` is written accordingly: it promises
that what is stored was confirmed and that what is reported was confirmed, and
does not promise that what is reported is stored. `SavedIsStored`: two handlers
write one path at once, without a lock (`file_handler.py:22`); both saves return
True and the file begins with one upload and ends with the other.
`UnspoiledIsWhole` is what remains true. `KeyedIsKept`: `writeToFile` returns true whatever
became of the write (`FileUtils.cpp:58`), so `initializeClient` goes on and the row gets its
keys, while its id is in no file that can be read; every later run of that user fails.
`KeyedIsHeld` is what remains true.

**What the models show besides.** These follow from the code but contradict nothing
that it says of itself; the properties are stated so as to allow for them.

* A name whose registration was answered to nobody is taken until the server ends
  (`RowsAreHeld` is checked without faults, `KeyedIsHeld` with them).
* A user without a name is refused only after it was registered (`main.cpp:18`): the empty
  name is taken, and `me.info` is there and ends later runs that have a name.
* A registration or a key that was cut by the end of its stream is registered, or stored,
  as an empty one (`protocol.py:99`); `KeepsRegistry` says that it takes nobody's name.
* `set_file_verified` marks the rows of failed attempts as well (`database.py:124`):
  `VerifiedIsBacked` says "a file of that name", not "the file of that row".
* A server that was restarted serves a client whose row it has lost
  (`client_handler.py:90`): the `UPDATE` of a missing row is no error, and foreign
  keys are not enforced (`database.py:56`).
* A handler that runs can be pushed out of the map by another one from the same
  address and port (`client_connection_handler.py:45`); it goes on, but a `stop()` of
  all handlers would not reach it.
* What `FinishedIsClosed` shows of one upload adds up: each successful one keeps its
  descriptor until its address and port are used again, and when there are no more,
  `accept()` fails for ever and the next clients wait in the backlog. No fault is needed
  for that. `Stuck` allows for it, when all descriptors belong to connections that no
  thread will use, and not before.
* A client whose handler could not be created waits until somebody else connects
  (`client_connection_handler.py:26`): `Stuck` allows for that, and `OnlyLastIsHeld` says that
  it is never more than one.
* A crash while a file is saved leaves neither the new one nor the verified one that it
  replaces (`file_handler.py:22`): `UnspoiledIsWhole` exempts it.
* A user name longer than its field is not cut (`EncryptionHandler.cpp:93`) and pushes
  the key behind it out of place; one of more than 1001 bytes, or 841 with the key
  behind it, has no room in the buffer on the stack: `FittingArrive`.
* What lies behind a buffer can make a run refuse its own files
  (`ClientInitializer.cpp:169`). Nothing has to fail for that: it is in `Faults` as
  `overread`, and so `RunsAreServed` is about runs that are spared it.
* `atoi` and the conversion to 16 bits accept any text as a port
  (`ClientInitializer.cpp:246`).

## 5. Proofs

The theorems hold for all values of the constants that satisfy the named
assumptions of their module, which TLC evaluates on every run: TLC sees one
instance each.

| Module | Theorems |
|---|---|
| `SessionProofs` | `Invariance` (`Spec => []IInv`); `TypeCorrect`, `StaysInStep`, `CrcStaysCurrent`, `OnlyAcceptedIsSaved`, `SuccessIsServed`, `VerifiedMeansSaved`, `RowsAreAttempts`, `WaitsEnd` (`NobodyWaitsInVain`): all safety properties; `Refinement` and `HandlerLifecycle`: `Session` implements `Upload` and `Lifecycle` |
| `RegistrationProofs` | `RegistrationInvariant`; `RegistrationTypeCorrect`; `NamesHaveOneHolder` (`OneHolder`); `TableIsRegistry`: `Registration` implements `Registry` |
| `RegistrationTurnProofs` | `TurnInvariant`; `KeysGoToTheirNames` (`PresentsOwnName`); `KeyedRowsAreHeld` (`KeyedIsHeld`); `RowsHaveOwners` (`RowsAreHeld`, without faults) |
| `StoreProofs` | `StoreInvariant`; `StoreTypeCorrect`; `MarksAreBacked` (`VerifiedIsBacked`); `SavesAreWhole` (`UnspoiledIsWhole`) |
| `ServerProofs` | `ServerInvariant`; `ServerTypeCorrect`; `RefusedAreReleased` (`OnlyLastIsHeld`); `LifecyclesAreKept` (`KeepsLifecycles`) |
| `WireProofs` | `WireTypes` (`TypeOK`); `PayloadsArrive` (`FittingArrive`); `CrcsArrive` (`CrcArrives`) |
| `InfoFilesProofs` | `InfoInvariant`; `NextRunsAccept` (`NextRunAccepts`) |

Every invariant of a passing run is a theorem, and so is every refinement.

**`Session`.** Assumptions: contents differ from the two markers, CRCs are
naturals, sizes are positive, bounds are naturals, faults have names. The
properties hold for any number of attempts and edits and for every non-injective
CRC. None is inductive by itself, since a response means nothing without the
place of the client. `LockStep` gives, for each place of the client while the
connection lives, the places of the handler and the one message that can be on
the wire. What outlives the connection is in the other parts: `RequestsFit` (a
confirmation that is still in the stream is one of the data the handler holds),
`ResponsesFit` (a client finds the answer it asks for, or acknowledgements of a
handler that has closed), `Served` (an acknowledged client has confirmed what the
handler holds, which then takes no other data), `SavesOnce` (the handler saves
once, after the confirmation), `RowsFit` (rows against attempts). `AttemptsLeft`
supports the type of the counter. The module has facts about sequences and
messages first; then the effect of `Send`, `Reply`, `Arrives`, `HangsUp` and `Sees`
on the streams; one lemma for each action, with a step for each part that it
disturbs; the invariant, the properties and the refinements. `WaitsEnd` takes a second
invariant beside `IInv`, that nothing in the stream of an unreset connection is cut.
It is what can be said here of deadlock without `ENABLED`: of two threads without
timeouts, one can always go on.

**`Registration`.** The invariant is `Run /\ Held`. `Run` has the types;
`RunsHaveConns` (no two runs have one connection); `RequestsAreNamed` (a request
has the name of its run as long as the connection is up); `RowsAreUnique`. `Held` is
about everything that a user owns or is about to be told: the ids in its memory, in
its `me.info`, and in the response that it waits for. All of them were drawn; one
that was drawn since the last restart has a row of that name, and no other user
owns it. `OneHolder` follows, since a name has one row. The proof of `NextHeld` shows
for most steps only that no user owns more than before (`NoMore`, `FewerHeld`), and
does the work in the two steps that create something: `RegisterNewClientHeld` and
`RestartHeld`. The refinement needs `RowsAreUnique` alone, for then the table is a
function (`HolderRow`).

**Turns of `Registration`.** The handler of a `CLIENT_PUBLIC_KEY` request believes the
id in it, or works with the one it has given out on that connection. That this id
belongs to the name, and that its owner has it in `me.info`, takes the history of a
connection, which is in `InTurn`. `Orderly` is about one connection, whether its run
is still there or not: at most one of request and response is on its way, and the id
that a request is served for is `Named` (it has no row but one of the name in the
request) and `Kept` (if it has a row, the `me.info` of the user it was made for was written with
it, or damaged by that very write).
`InfoFits` says at which places of a run `me.info` is there, and `InStep` at which
places run and handler can be together as long as the connection is up. A step of
one user leaves the connections and files of the others alone, so most steps have to
be looked at for one connection; ids stay `Named` because an id is never drawn again,
and `Kept` because `me.info` is written once. `KeyedIsHeld` is then inductive relative
to `InTurn`. `RowsHaveOwners` assumes `Faults = {}` and uses `Noted`: every row has its id
in a `me.info`, in the memory of a run that is about to write it, or in the response
that its run waits for. Restarts and renames are allowed there: they take rows, and
leave `me.info`.

**`Wire`.** Assumptions: a byte has two values at least, fields have one byte at least,
a CRC response fits a packet, and so does the header of a request with a user name that
fills its field and a key; a packet, and id, size, file name and the header of a request, fit
a `uint32_t`; names have no zeroes. `WireInv` adds to the properties what is in the
stream (`Sent`) and in the answer (`Answered`). Three arguments carry it. Numbers: the
bytes of `Little(n)` determine `n` below `Limit` (`LittleOnce`), by induction over the
bytes; `NumberLemmas` states induction for sets of naturals and recursion for
functions, derived from the library's well-founded order on the naturals, so that
no operator is a parameter. Fields: a slice of a concatenation at a place that the
lengths add up to is the part (`FourParts`, `SliceBehind`), also of a payload that was
cut behind it (`PartsBegun`). Names: what is padded, or cut, to a field and stripped of
zeroes is the name or its beginning (`NameReturns`). `NamesHaveRoom` adds that a user name
which fits its field has room in the buffer on the stack, with the key behind it.

**`InfoFiles`.** Assumptions: the texts, ids and what may lie behind a buffer are
sequences of characters or bytes, and the key is not empty and has neither a line
end nor a zero. `InfoInv` says that from the moment `me.info` is written until it has
been read it is the join of the user's name, the digits of the id and the key, and
that the names are free of line ends and zeroes, which `NameRead` shows of whatever
is the second of three lines. `InfoLines` is the lemma about `Split`: with three such
texts, and anything at all behind them, the first two lines are what was
written, and the third as well when there is nothing. It goes by where lines begin, in
their order (`NthLine`, `NextLine`), and needs no induction. `HexReturns` is that `Unhex`
inverts `Hex`, of any length.

**`Store`.** `IInv` is `TypeOK` with `JobsAreIssued`, `MarkersHaveSaved` (who is about
to mark has saved: this makes `VerifiedIsBacked` inductive), and `FilesAreWhole`: a
file that is not spoiled has one writer at most, which finds it empty, or holds
the whole of one upload. One step per action; `Execute` and `Write` by their cases.

**`Server`.** `IInv` has the types, `HandHasAccepted` and `QueueHasWaiting` (each
connection that is accepted or refused is the one in `client_socket`, and each that waits
is in the queue once), and `OpenFit`, in which the descriptors are counted with the
library's facts about cardinalities: a connection that only `client_socket` refers to
counts until the next one was accepted. `OnlyLastIsHeld` is a part of
`HandHasAccepted`: `hand` changes only where `Released` closes what it had.
`LifecyclesAreKept` is a refinement with a parameter: each step is a step or a stutter
of every connection's `Lifecycle`.

**Only model-checked:** the liveness properties `Termination`, `RetriesAbsorbEdits`,
`RunsAreServed`, `CallsReturn` and `EveryoneIsServed`, and the absence of deadlock: the
prover does not treat fairness and `ENABLED`. `Atoi` folds over the digits of a port:
no theorem speaks of its value. The four runs that end in a violation have nothing to
be proved.

**What the proofs have shown of the model.** The first statement of `FittingArrive`
said that the key arrives if and only if the user name fits its field. The proof
failed: a name that is too long may end in bytes that continue the key (a key of
equal bytes, a name that ends in such bytes), and then the key arrives all the
same. The property now says where the bytes of the key come from. A user name can
also be so long that the registration itself does not fit a `uint32_t`, which `Fits`
had asked of files alone.

## 6. What is not modelled

* **Ciphers.** `RSAWrapper`, `AESWrapper`, `Base64Wrapper` but for hex, and
  `crypto_handler.py` hand data to a library and have no state or control. `Session`
  takes decryption as the inverse of encryption under the key that was exchanged.
* **`port.info`**: one number, read before anything starts; and the build files.
* **Power loss.** A saved file is on the disk when `save_file` returns.
* **Text encodings.** A name that is not UTF-8 is not told from one that is.
* **Memory errors** other than those of `BadRead` in `Session`, of the two buffers that can
  be too small in `Wire`, and of a buffer without an end in `InfoFiles`. Of a stack buffer
  that is too small `Wire` has two outcomes, an end of the process and none: what else is
  overwritten is not followed.
* **Signals.** The server ends by `serverCrash` or `Restart`, not by an orderly `stop()`,
  which the code calls only when `bind()` or `listen()` fails.
* **Requests of several buffers.** The file is sent by one `write`; a request is received
  whole or cut, since the payload loop makes the parts of a live connection whole.

## 7. What is left

| Order | Contents |
|---|---|
| 1 | what `RunsAreServed` and `EveryoneIsServed` rest on, as invariants, as `NobodyWaitsInVain` is one for `Termination` |
| 2 | `Store` composed with `Registration`: ids of an earlier server in the files table |
