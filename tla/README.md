# A TLA+ verification of Eso

Eso distributes permissions and cryptographic credentials. A certificate
authority (`esoca`) keeps the reference database; distribution servers (`esod`)
hold copies; every end host runs a local daemon (`esol`) that keeps the
permissions of its host, fetches credentials on demand, and performs the
cryptographic operations for the programs of the host. Admins change
permissions and credentials in a web application that talks to `esoca`.

This directory models the coordination of these parts: who tells whom, in which
order, what is stored where, and what happens when a part is missing, slow,
killed, or started twice; and, below that, how messages and keys travel over a
connection, and what happens between a program and its `esol` in one call.

## The system

    browser --HTTP--> app.py --UDS--> esoca --TCP--> esod (each location) --TCP--> esol
                         \--reads--> esoca's database        ^                      |
                                                             +------ queries -------+
    program --UDS--> esol (its own host)

| Component | State | Operations | Talks to |
|---|---|---|---|
| pid-file lock, `daemon/daemon.h` | lock file, pid in it | `has_lock` before `work()` | other copies of the daemon on the host |
| `esoca`, `central/esoca/ca_daemon.h` | permissions, credentials (MySQL) | NEW_PERM, UPDATE_PERM, DELETE_PERM, NEW_CRED; `propagate` | web application, every esod |
| `esod`, `distribution/esod/distro_daemon.h` | permissions, credentials | UPDATE_PERM, DELETE_PERM, NEW_CRED, GET_PERM, GET_CRED | esoca, the esol of `perm.loc` |
| `esol`, `local/esol/local_daemon.h` | permissions, credentials; two threads | `handleTCP` (pushes), `handleUDS` (programs), `get_permission`, `get_credential` | esods, programs |
| sockets, `socket/` | accept queues, `msg_buffer`, `_user` | connect, accept, send, recv; UDS credentials | |
| databases, `database/` | tables with primary keys | INSERT, UPDATE, upsert, DELETE, SELECT | |
| web application, `central/app/` | the page in each browser, sessions | create, edit, remove, view | esoca; its database, directly |
| Java API, `local/api/java/` | an instance of the service per program | `getService`, encrypt, decrypt, hmac, sign, verify, all blocking | esol |
| base64, `crypto/base64.h` | none | encode, decode | esoca, esol |
| other crypto, logger, util | none | | |

What is hard here:

* **Concurrency.** Every daemon is a process of its own; `esol` has two threads
  on one database, so that an answer to a query and a pushed change of the same
  permission race. Admins act on pages that are copies.
* **Failure.** `TCP_Socket::connect` ends the calling process when the peer is
  not there, so one missing daemon ends the next one up the chain. A sender that
  dies within a message leaves the receiver in `recv()` for ever. Nothing is sent again.
* **Ordering.** Messages carry no version; each change travels on a connection
  of its own, once per location.
* **Waiting.** Every server handles one connection at a time and its accept
  queue is bounded; `esoca` waits for `esod`, `esod` for `esol`, `esol` asks `esod`.
* **Starting.** `has_lock` must let one copy of a daemon in, with a lock file
  that no one removes at exit, so that each start has to reclaim a stale one.

* **Bytes.** A stream has no messages: `recv` puts them together from pieces cut
  anywhere, behind a header that holds 16 bits of a length.
* **Credentials of a connection.** The user of a program is what the kernel says
  of one byte, if the byte is sent at the right time, and is kept in the
  listening socket that the next connection uses too.
* **Databases.** Every statement may fail, and no caller looks at its status.

What makes each part correct: the lock admits one daemon and a host where one is
started gets one; every cache holds, for each key, what esoca issued with the
last change the cache received; delivered changes leave all databases equal; a
credential has one key material everywhere; a program is served only what was
allowed; messages arrive whole and in order, and keys as they were; a call is
decided for the user who makes it; nobody waits for ever.

## Modules

| Module | Models | Notes |
|---|---|---|
| `SingleDaemon` | what the pid file is for | abstract: `Admit`, `Leave` |
| `DaemonLock` | `has_lock`, `start_daemon` | one action per system call; refines `SingleDaemon` |
| `DaemonLock_proofs` | | inductive invariant, theorems |
| `MCDaemonLock` | | instances for TLC |
| `EsoData` | `database/`, `message_config.h` | tables, the SQL statements, messages; no state |
| `EsoNet` | `socket/tcp_*` as the daemons see it | processes, accept queues, queries and answers, death of a process |
| `Esoca`, `Esod`, `Esol` | the three daemons | each EXTENDS `EsoNet`, one action per handler or per step between two blocking calls |
| `EsoWeb` | `central/app` | EXTENDS `Esoca` |
| `Eso` | the whole system, kills and restarts | EXTENDS `EsoWeb`, `Esod`, `Esol`; the properties |
| `Eso_proofs` | | inductive invariant, theorems that need no assumption, the refinement of `PermissionCaches` |
| `EsoOrder_proofs` | | the order in which changes reach the caches; EXTENDS `Eso_proofs` |
| `EsoCreds_proofs` | | queries, the page, key material; EXTENDS `EsoOrder_proofs` |
| `EsoServing_proofs` | | the system without faults; EXTENDS `EsoCreds_proofs` |
| `PermissionCaches` | what the distribution of permissions is for | abstract: `Issue`, `Update`; `Eso` implements it |
| `MCEso` | | instances for TLC |
| `Channel` | what a connection is for | abstract: whole messages in order |
| `Stream` | `tcp_stream.h`, `uds_stream.h` | one direction of a connection, byte by byte; refines `Channel` |
| `Base64` | `crypto/base64.h` | pure operators |
| `KeyTransfer` | a key from esoca to a service of esol | EXTENDS `Stream`, `Base64` |
| `Stream_proofs`, `KeyTransfer_proofs` | | theorems; the second adds base64 and composes it with the first |
| `MCStream` | | instance for TLC |
| `LocalCall` | `socket/uds_socket.h`, `EsoLocal`, `handleUDS` | one call of a program, message by message |
| `LocalCall_proofs` | | inductive invariant, theorems |
| `MCLocalCall` | | instance for TLC |

The modules stand on each other's results rather than on each other's text:
`EsoNet` and `LocalCall` let a connection carry whole messages, which is what
`Channel` promises and `Stream` is shown to keep; `Eso` lets the daemons' copies
of key material be compared as numbers, which `KeyTransfer` justifies; `Eso` makes the
request of a program one step, which `LocalCall` takes apart; `LocalCall` takes
the permissions and credentials that `esol` finds as given, which `Esol` says where they come from.

### How the state and the actions correspond to the code

*DaemonLock.* `pc[p]` is the system call that process `p` makes next, `attempt`
the loop counter, `path` the file the lock path names, `data[f]` the contents of
file `f`. Files are numbered as they are created, because `unlink` removes a name
and not the file: a process that has the old file open still writes to it. The
`attempt--` of the stale-file and of the write branch cancels the loop's
increment, so only `Retry` (the `sleep(1); continue` path) counts. `write` that
returns -1 is taken for success by the code (`!write(...)`), hence the branch of
`WritePid` that writes nothing. `read` that returns -1 is taken for success, too
(`daemon.h:69-72`): `ReadPid` goes on with what the variable `pid` held, which is `seen[p]`: the
pid read before, the process's own once it has created a file, or at first something in
`Garbage`, since nobody initialises it. `Group` stands for 0 and -1, with which
`kill` means a group of processes that exists. `lock_path()` returns a pointer into a destroyed
string; `open` may fail for that reason. `Failing` says which of the three calls may.

*The daemons.* A daemon handles a message up to its next blocking call in one
action. `esoca` accepts and stores (`CaNewPerm`, ...), then sends to one location
per step (`CaSend`). `esod` accepts and stores, then forwards (`EsodForward`).
`esol`'s TCP thread stores in the step that accepts. Its UDS thread goes through
`client[h].pc`: look up the permission, ask for it, take the answer, the same for
the credential, serve. `Encrypt`, `Decrypt`, `Hmac`, `Sign` and `Verify` are the
five services; each accepts the kinds of credential that its branch of `handleUDS`
has code for, sends the empty reply when the credential has expired (a choice of
`UnlessExpired`; the empty credential always has), and sends none otherwise, which
`silent` remembers. A connection carries one message, or a query and its
answer: `inbox[s]` is the accept queue of `s`, `pull[h]` the answer that `h` waits for.

*Death.* `Down(p, cut)` is what happens to everybody else when `p` ends, by an
`exit(1)` in `connect`, by SIGPIPE, or by a kill: its queue is gone, its queries
have no reader, whoever waits for its answer sees the connection closed, and
(`cut`) a message it was sending is torn. Databases survive. `Restart` brings the
process back with its database and nothing else.

*Databases.* `perform_query(p, before, after)` is what may come of a statement
that changes a table: on a machine in `Failing` it may change nothing, and the
daemon goes on as if it had, because no caller looks at the status.
A SELECT that fails has no result, and the callers hand the null pointer to
`mysql_fetch_row`. What that does is up to the library: it reads through the pointer and the process dies, or
it checks it and there is no row. `DiesOfSelect(p)` guards the first: `CaDies` (esoca has
stored an edit and will tell nobody), `EsodExit` on a query, and `EsolExit` on a lookup.
`get_result(p, none, found)` is the second, where a failure looks like a row that is not there.
`EsodStore` and `EsolStore` write the table and, if it is written, the version
with it.

*Stream.* The network loses and reorders nothing, so its state is the `stream`
of bytes written and two positions in it: `read`, what `::recv` has returned, and
`taken`, what has been removed from `msg_buffer`; the buffer lies between them. `Send`
writes the header and `Write(n)` is one `::send` of the loop; `Recv`, `Read(n)`,
`ParseHeader` and `Return` are the parts of `recv()`. `Close` can happen at any
byte, which is also how a sender ends; a receiver that finds nothing more loops on a
`::recv` that returns 0, which is a step that changes nothing and so is not there.
`TCP_Stream` and `UDS_Stream` differ in names only. A header byte
has `Base` values, 256 in the code.

*Base64.* `Letter(v, stray, g, i)` is one letter of the text, as its position in
`b64table`; `stray` is the byte behind the input that the encoder reads after
a last group of one byte. `Letters`, `WellFormed`, `OutLength` and `OutByte` are the
parts of `raw_base64_decode`: where the letters end, which endings it accepts, and
what it computes. Its fall-through `switch` is the `CASE` of `OutByte`.

*LocalCall.* `pc[p]` is where a program is in the native method it has called,
`phase` where the UDS thread of `esol` is. Messages of a connection are counted
and not held: `arrived[p]`. What is sent and what is read is written down twice, as in
the code: `Sends` is from `EsoLocal_EsoLocal.cpp`, `Reads` from `handleUDS`. The
kernel marks the byte with the credentials when it is sent while the connection
waits in the queue or after `SO_PASSCRED` has been set; a byte sent between `accept` and `setsockopt` has
the user `nobody`. A program that is gone before it has sent everything leaves `esol` in
`recv()` for ever (`RecvForEver`), one that is gone when it is answered kills `esol` with
SIGPIPE (`Reply`); the Java virtual machine ignores that signal, so that the program
gets an exception instead (`Breaks`, `Refused`). `verify` reads the first byte of its answer, and
an empty answer has none: the program crashes (`VerifyReturns`). `is_expired` compares days: a credential has
expired from the midnight on with which its date begins, although the comment at
`local_daemon.h:278` says "true if the Credential has not expired", the opposite of what is returned and used; the shift that `mktime` applies in summer is below that grain.
`Yields` is what `crypto/` makes of the data of a request, good or bad: `rsa_encrypt` and
`rsa_decrypt` build a vector of the length -1 that OpenSSL reports, and the `std::length_error`
is caught nowhere, so that `Decide` ends `esol`; `rsa_sign` answers with nothing when the hash is `Hash.DEFAULT`
and a decryption may give nothing. `LookupFails` is a `has_permission_to` or `get_credential` that does not return, for what
is in `Unsure`: the connection to esod ends the process (`exit(1)`), as does a SELECT without
a result, or the answer never comes and the thread spins.

*Auxiliary state.* `issued[k]` is the sequence of values esoca has issued for
`k`; a message's `ver` is the index of its value; `dApplied` and `hApplied` are
the versions a cache has applied last. No daemon reads them: they occur in no
guard and in no primed value of another variable. Nor does `silent`, nor `sent`,
`got` and `starts` in `Stream` but for the bound on messages and as the memory from which
`Write` takes the rest of its message, nor `asked` in `LocalCall`; `killed` there bounds kills.

*Abstractions.* An `(set_name, entity)` pair is one name, a mask of operation
bits a set, key material a number. `entity_type` and the owner fields of a
credential are carried along by the code and read by no daemon, so they are left
out. `get_fqdn()` is the name by which esod knows the host. Serialization is the
identity on records: the delimiters cannot occur in what the web forms let
through. An `esol` that gets -1 from `::recv` while it waits for an answer ends
(`EsolExit`): it inserts a range of that length into its buffer. A MySQL statement
succeeds or fails as the primary key says, or fails on a machine in `Failing`. What the programs
of `Eso` hand to RSA is taken if `DataFits`; otherwise `Throws` may end their esol in `EsolExit`.

## Runs

| Run | Question | Instance | Result |
|---|---|---|---|
| `lock_serial` | Does the lock work across deaths, pid reuse and I/O errors? | 3 pids, 5 starts, one starter at a time, death at any call, `open`, `write` and `read` failing with a `pid` of 0 or -1 | `TypeOK`, `MutualExclusion`, `LockNamesHolder`, `ImplementsSingleDaemon` hold |
| `lock_live` | Does a started host get a daemon? | 3 pids, 3 starts, starters race, deaths once the lock is held | `StartLeadsToDaemon`, `EmptyLockHasWriter` hold |
| `lock_race` | Is there one daemon when starters race for a stale file? | 3 pids | violated: finding |
| `perms_sync` | Do changes and lookups leave all databases equal? | 1 location, 1 host, 1 admin, 4 requests, 1 program, all services | `Converged`, `AllServing`, `ReportedIsDone`, `NeverRegresses`, `InsertsAccepted`, `TypeOK` hold |
| `faults` | What does a cache hold when things go wrong? | 2 kills, every database failing with or without the end of the process, data that RSA does not take, reordered connections, duplicates, stale pages, 2 requests | `DistributionFaithful`, `HostFaithful`, `ImplementsCaches` hold |
| `creds` | Is key material consistent and service legitimate? | 1 kill, databases of the servers failing, 3 requests, 2 programs, 2 services | `CredsAgree`, `ServedAsAllowed` hold |
| `live` | Is everything delivered and answered? | 2 locations, queues of one connection, 3 requests | `Converged`, `Settles`, `ClientAnswered` hold |
| `framing` | Do messages and keys survive the stream? | headers of two digits of base 3, pieces of up to 5 bytes, 3 messages, the sender closing at any byte | `InOrder`, `KeysArrive`, `ImplementsChannel`, `Delivered`, `TypeOK` hold |
| `local_call` | Is a call decided for its own user, and does it end? | 2 programs of two users, good and bad data, a credential that expires meanwhile, one that may not be found, 1 kill | `OwnUserOrNobody`, `ResultJustified`, `EmptyForAReason`, `HangsForAReason`, `EsolSurvives`, `CallsEnd`, `TypeOK` hold |
| `created_twice` | Does the first creation stand? | 2 admins | violated: finding |
| `pull_perm` | Does a query find the permission? | 1 admin, 2 programs | violated: finding |
| `stale_edit` | Can an edit stop a daemon? | 2 admins | violated: finding |

### Bounds

`MaxStarts`, `MaxRequests`, `MaxKills` and `MaxClients` bound how often the
environment acts; the daemons themselves are unbounded. One host and one name
are enough for what is checked: daemons treat keys independently, a change is
routed only by `perm.loc`, and every property is about one key at a time. The
permissions of a run are those in `Grants`: allowed or not where one service is
enough, all services or none in `perms_sync`, and either of two services in
`creds`, so that a change can take away exactly what is being served. Two or three versions of a key are the least that make old and new differ
after the first; four requests reach create, edit, remove and create again.
`Backlog` is 1 or 2 where the code has 5: a smaller queue only makes the full
queue reachable with fewer requests. `Window = 2` in `faults` lets the second
connection overtake the first; the other runs accept in order, which is what a
local network does, and `NeverRegresses` and `Converged` need it.
`faults` has two requests and two kills: two values of a key make old and new
differ, and the second kill lets a process die again after a restart, or two of a chain die.
In `framing` a header counts to 8, so that the text of the longest key (12 letters) wraps around
and the properties have to stop there; keys of 0, 1, 2 and 7 bytes give every kind of padding,
and up to three messages in pieces of one to five bytes cut headers and texts everywhere.
In `local_call` `Backlog = 0` refuses a program as soon as another one waits; one
program calls with everything that fits and does not fit, the other with what it may
not do; the day changes once, at any point of a call. A third program would only wait.
`lock_serial` needs five starts for two generations of stale files with a
refused starter in each; `lock_race` needs three pids because a dead daemon's pid is in the file.

`CHECK_DEADLOCK FALSE` is in every configuration: once the environment has used up its
bounds the system may really stop, with all daemons waiting in `accept`. That
nobody waits for somebody else for ever is checked as `Settles` and `ClientAnswered`.

### Assumptions a run makes

The theorems (see Proofs) have the same conditions as hypotheses, and those only where they are needed.

* `lock_serial` lets `read` fail with a `pid` that held 0 or -1. When it held the pid of a
  process that is gone, `has_lock` unlinks the file of the daemon that runs and `LockNamesHolder` fails.
* `creds` lets the databases of the servers fail and not esoca's: what esoca could
  not store it sends out all the same, and the next creation of the credential
  generates another key. No database fails in `perms_sync` and `live`, whose
  properties say that what was stored agrees; `faults` lets all fail.
* `InsertsAccepted` leaves out the INSERT of a pulled permission, which a pushed
  one may overtake. It is for one admin and no failures; an INSERT that is refused
  leaks its connection to MySQL (`perform_query` returns before `mysql_close`).
* `EsolSurvives` lists what stops `esol` for all (`StopReason`), all of which happens in the run: a program killed while it is
  served, permitted RSA operations on bad data, and lookups that fail. `HangsForAReason` counts as
  waiting in vain whoever is in a `recv()` that nothing will end and whoever is in a call while the
  thread spins. `CallsEnd` exempts the same, the former only with the reasons named there.
* `perms_sync`, `creds` and `live` have `DataFits = TRUE`, `faults` has `FALSE`.
* `perms_sync` and `live` kill nobody, and have one admin, `ChecksPage = TRUE`
  (no row is added for what the page lists; no code enforces it) and
  `Reloads = FALSE`. Without them the properties fail, as `created_twice` and
  `stale_edit` show. `creds` needs the last two as well: a credential created
  twice sends two key materials. `faults` needs none of them.
* `NeverRegresses` is for one location. With two, a host may go back to an older
  value for as long as the slower server has not forwarded the newer one; `Converged`
  in `live` shows that it ends well.
* `ClientAnswered` is checked for encryption with a symmetric credential, which may
  be missing. Decryption without a credential, a service with a credential of a kind it has no code
  for, and `userpass` credentials get no reply; the TODO comments of `handleUDS` say so.
* `ReportedIsDone` holds as long as esoca stays up: the application reports
  success when the request is sent, so one that esoca had not handled when it
  died has been reported and is lost.

### Fairness

Each daemon is weakly fair in its next step, and the two threads of an esol each
on their own: they are threads of processes that the kernel schedules, and the
blocking calls they make return when there is something to return. Nothing is
assumed of admins, programs, kills and restarts, nor, in `DaemonLock`, of starts,
deaths and pid reuse.

In `Stream` the receiver is weakly fair, as a daemon that calls `recv` is; the sender
is not, since it may end at any byte. In `LocalCall` the UDS thread of `esol` and each
program are weakly fair within a call; nobody has to call, no day has to end and nobody has to be
killed. Weak fairness of one action per thread is enough there because a thread has
at most one kind of step enabled, or a choice that the kernel makes.

## Proofs

`DaemonLock_proofs` proves about `DaemonLock`, for every set of pids and every
value of the constants:

* `TypeCorrect`: `TypeOK`, under any schedule and any deaths. The only delicate
  part is that an open file exists.
* `AtMostOneDaemon`, `HolderKeepsLock`, `Refinement`: `MutualExclusion`,
  `LockNamesHolder` and the implementation of `SingleDaemon`, under `Careful`:
  daemons are started one at a time (then anything may die anywhere and `open`, `write` and `read`
  may fail, `read` only if an uninitialised `pid` is 0 or -1), or nobody has died and no call fails
  (then any number may race). `lock_race` shows that some such condition is needed.
* `NoOrphanedLock`: `EmptyLockHasWriter` when writes succeed and nobody dies
  between creating the file and writing to it, whatever else dies, fails or races.

`LockNamesHolder` is not inductive. What is missing is that `unlink` removes a
file nobody runs under, and that a file about to be written is still the one the
path names. `IInv` adds: with serial starts there is one starter (`OneStarter`);
an open file is the current one and the pid that is tested is the pid in it, or 0 or -1
(`OpenIsCurrent`); the creator is alone (`OneWriter`); a file is created, and the path is cleared, only
while no daemon runs (`NoneRuns`); what a failed `read` leaves in `pid` is what the file holds, or the
process created that file itself (`PidIsCurrent`); and without deaths the process whose pid is in the
file is on its way to find it there (`AuthorLives`), so that nobody ever finds a
stale file. The refinement follows from mutual exclusion before and after a step.

The race among simultaneous starters without deaths is covered by the proof
alone; the runs cover serial starts and the liveness of racing ones.

`Eso_proofs` proves about `Eso`, for all locations, hosts, names, admins and
credentials, every queue length, reordering window and bound, and with every
process killable, with no further assumption:

* `TypeCorrect`: `TypeOK`.
* `DistributionIsFaithful`, `HostIsFaithful`: a cache allows what esoca issued with the change it
  applied last. `faults` is the small instance.
* `ServiceIsAllowed`: `ServedAsAllowed`, of which `creds` is the small instance.

The two `...Faithful` are not inductive: a cache takes its next value from a message. `IInv` adds that
every message under way, in esoca's hands, in a queue or in an esod's hands,
carries the value that was issued with its version (`SoundMessages`); that an
answer to a query for a permission allows nothing (`EmptyAnswers`, the effect of
finding 3), so that the INSERT of it cannot change what a host allows; and that a
program whose request has got past the permission was allowed its operation, and one
whose esol asks has a location to ask (`SoundClient`). Issuing a value only adds
to `issued` (`Grows`), so that everything under way stays sound; every other step
moves sound messages about. A repaired `GET_PERM` would need another `EmptyAnswers`: the answer's
version, and a rule for what happens when it is older than a pushed one.

The theorems assume nothing of `Failing`: in `IInv` a table and its version are written
together or not at all (`Stores`), which is what keeps it inductive.

The last part of `Eso_proofs` proves `CachesAreImplemented`: `Eso` implements
`PermissionCaches`, with the `issued` of `Esoca` and, for `allows`, what the tables of the
servers allow. Only four actions change a table of permissions by a message, and `IInv` says
that such a message carries a value issued for its key: one `Update`. The INSERT of an answer
changes no value, a request that esoca takes is an `Issue`, and everything else stutters.

Three more modules prove what `Eso` keeps only under conditions, which the theorems name as their
hypotheses. They hold for all locations, hosts, names, credentials, queue lengths and bounds.

| Theorem | Property | Needs |
|---|---|---|
| `DistributionNeverRegresses` | the half of `NeverRegresses` about esods | `Window = 1` |
| `CachesNeverRegress` | `NeverRegresses` | `Window = 1`, one esod |
| `CredentialsAgree` | `CredsAgree` | `PageIsRight` |
| `AllGoOnServing` | `AllServing` | `PageIsRight`, `NobodyKilled`, `NothingFails` |
| `WhatIsReportedIsDone` | `ReportedIsDone` | the same three |
| `NoInsertRefused` | `InsertsAccepted` | the same three, `EachLocationOnce` |
| `CachesConverge` | `Converged` | the same three, `Window = 1`, a location |

`PageIsRight` says that there is one admin (or none), that the browser adds no row for what the page lists,
that the page is not loaded again while a request waits, and that esoca's own database does not
fail. `NothingFails` says that no database does and that RSA takes the data of the programs: a SELECT that fails
or an exception in `crypto/` may end a daemon, and with it what it was about to do. `created_twice` and `stale_edit` show what two admins do.

*Order* (`EsoOrder_proofs`). Each change has a connection of its own, so no stream keeps changes in
order: the accept queues do, if connections are accepted as they were made (`Window = 1`). `EsodOrder`: what esoca
still sends is the newest version of its key, the changes in an esod's queue ascend, and the esod has applied
nothing younger. `HostOrder` says the same of the whole way from an esod's queue through
its hands and the queue of the host to the host's table. Two esods forward one key in either order, hence
`OneEsod`. Kills and failures only take changes away (`Undelivered`), so nothing is assumed of them.

*Key material* (`EsoCreds_proofs`). `QueryInv`: who has a query on its way waits for it, has no
other, and asks for what its program needs, so that the answer, which does not repeat the name
of the credential, is for it; a query that outlives its asker belongs to nobody. `PageInv`: the page lists every credential esoca
has, and at most one request creates each, made while esoca does not have it. `CredInv`: every
message and answer carries what esoca has. Any process may be killed, the databases of the servers
may fail, and connections may overtake each other.

*No faults* (`EsoServing_proofs`). `PageLeads`: from what esoca has, each waiting request has an effect
(it creates what is not there, edits or removes what is), and the last one leaves what the page lists.
That gives `ReportedIsDone` and, since no edit is stale, that no empty permission is sent. `ServeInv`: no
message is torn, from nobody or for a host that there is not, so nobody ends, so all can be
reached. If somebody were killed, requests would be lost that the page counts on, and a daemon that calls
the dead one would end. `InsertInv`: a credential is sent to an esod once, before it is there, and an esol asks only for
what it does not have. An esod listed twice in the locations is sent each credential twice. `CatchUp`: a cache that does not have the latest version of a key has it on
its way, behind every older version on the same way; with `SoundMessages` and the faithful caches of
`Eso_proofs`, a cache that has caught up allows what esoca does. Without a location nothing would reach
a host. `CachesConverge` is for any number of esods: the caches may
go back on the way, as `NeverRegresses` says, and are right at the end.

Those that need `PageIsRight` also need that a permission and a credential are different things on the page, which lists them
apart (`PageAssumption` in `EsoWeb`).

`Stream_proofs` proves, for bytes of any base, pieces of any size and any
messages, `TypeCorrect`, `WholeInOrder` (`InOrder`) and
`StreamImplementsChannel`. `InOrder` is not inductive: the bytes decide what is returned.
`IInv` adds that the stream consists of a frame, header and bytes, for each message, one
behind the other, of which only the last can be incomplete (`Frames`), and that the receiver stands between
two frames or behind a header whose length is that of the message (`InStep`), as long as all
messages so far fit their headers. `KeyTransfer_proofs` proves `RoundTrip`: decoding inverts encoding, for inputs of any
length, any byte behind them, and all three remainders, from the arithmetic of each
group of three bytes and four letters and from `Letters` being where the text ends. It composes
`InOrder` and `RoundTrip` into `KeysAlwaysArrive`, which needs nothing else of either.

`LocalCall_proofs` proves each safety property of `LocalCall`, for any number of programs,
users and credentials and any backlog. `IInv` says of the callers what each state of a
call implies (`Callers`), that the connections in the queue are open, different and
unanswered (`Waiting`), that the one being served is, too, and that `esol` has read what it
sent (`Served`), that `_user` is what the kernel said of this connection (`UserSeen`), and that an
answer, given or about to be, has its reason (`Reasons`), as has a `recv` that nothing will end (`HungHow`). `StopsHaveReasons` proves `EsolSurvives`. That `esol` never answers a program
that has gone without being killed follows from `Served`: a program waits for its answer.

Only model-checked is what must happen: `Settles`, `ClientAnswered`, `Delivered`, `CallsEnd` and
`StartLeadsToDaemon`. Liveness stays with TLC, since the installed provers do not handle ENABLED.
Every invariant, action property and refinement of a passing run is stated by a theorem, under the
hypotheses named above.

## Findings

1. `lock_race`: `has_lock` tests a pid and then unlinks whatever the path names
   by then (`daemon.h:88`).
2. `created_twice`: esoca ignores that its INSERT failed and propagates the
   second value (`ca_daemon.h:129`), which the others upsert.
3. `pull_perm`: esod reads the permission, drops it and answers with the query
   (`distro_daemon.h:176`).
4. `stale_edit`: an edit of a removed permission propagates an empty one and
   every esod ends in `connect("")` (`ca_daemon.h:153`).

Also met, without a run of their own: an empty lock file is never reclaimed
(`daemon.h:72`); a change is lost for a location that was down, since
nothing is sent again; the application reports success before esoca has acted
(`appExtension.cpp:50`); a failed `read` of the lock file can make a process remove a valid lock, when its variable
`pid` happens to hold the pid of a process that is gone, or take the lock, when it holds its own
(`daemon.h:69`); data that RSA does not take ends `esol` for all programs (`rsa.h:138`,
`rsa.h:156`), and so does a lookup while esod is down (`local_daemon.h:152`, `local_daemon.h:215`);
a SELECT that fails can end any daemon (`mysql_conn.h:360`, `mysql_conn.h:481`); `rsa_sign` copies the signature after it has freed it
(`rsa.h:296-298`), so that what is in it is up to the allocator.

## Not modelled

* `RETRIEVE_OP`, which no request of `handleUDS` asks for, and requests that no branch
  handles; PING between daemons.
* AES, RSA, HMAC, the generation of keys and passwords: calls into OpenSSL that keep no
  state; what they compute is out of reach of these tools. Which of their outcomes end, empty or
  fill an answer is modelled. Allocations that fail are not.
* Descriptors: the stream that `connect` returns closes the one its socket closes again
  (`tcp_stream.h:39`), which the code does in every call, so that no property of single
  closing could hold; and connections to MySQL, which show only in `InsertsAccepted`.
* The stack: `base64_decode` writes a `size_t` through a pointer to an `int`, too much
  where `size_t` has eight bytes (`local_daemon.h:397`). What that hits is up to the build.
* Errors of `bind`, `setsockopt` and `recvmsg`, which are logged and change nothing here.
* Login, sessions and ownership in the web application; HTML.
* Logging, splitting of strings, conversions between Java and C++, mains and
  build files.

## Plan

1. *(done)* `DaemonLock` with its abstraction and proofs; the distribution system
   `EsoData`, `EsoNet`, `Esoca`, `EsoWeb`, `Esod`, `Esol`, `Eso`, and the proofs about it.
2. *(done)* `Stream`, which refines `Channel`; `Base64`; `KeyTransfer`; all proved.
3. *(done)* `LocalCall`: the UDS handshake, the programs and the UDS thread; its safety proved.
4. *(done)* Databases that fail; `PermissionCaches`, which `Eso` is proved to implement.
5. *(done)* Proofs: every invariant, action property and refinement of the passing runs.
6. Left: a bound on how far a host goes back with several esods (never behind what it has taken from
   each of them), checked on an instance with two locations and then proved; the safety part of
   `ClientAnswered` (a program whose esol answers has the answer to its own request) as an invariant of `Eso`.
