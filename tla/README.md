# Verification of the network-programming servers

TLA+ models of the programs under `src/`, the TLC runs that check them and
theorems checked by TLAPS.  `PROJECT.json` lists the runs, the mutants that
show each property can fail, the source lines of every definition, the hazards
and the findings.

To run one check: `tlc -workers 2 -config RwgShm_signals.cfg MCRwgShm`; to
check the proofs: `tlapm RwgShmProofs.tla`, and so for the other `*Proofs` modules.

## 1. The system

The repository holds four course projects.  Paths are below `src/`; `final/`
is `nctu_np_project2/final/`.

| Component | Source | State it keeps | Operations |
|---|---|---|---|
| Multi-process RWG server | `final/np_multi_proc.cpp`, `npshell_3.h`, `user_3.h`, `semaphore.h` | user table in shared memory (valid, pid, name, message count, messages, pipe records), semaphore `clisem`, sockets | accept + slot search + fork; pid registration; yell, tell, name, who, exit; SIGUSR1 handler (prints messages), SIGCHLD handler (closes the socket) |
| User pipes of that server | `npshell_3.h` | `name_pipe_record` in shared memory, files `user_pipe/S-R` | `cmd >N`, `cmd <N`, exit |
| Semaphore set | `semaphore.h` | three semaphores: lock, process counter, initialisation lock | create, wait, signal, close (from the SIGINT handler of servers and of their sessions) |
| Single-process RWG server | `final/np_single_proc.cpp`, `npshell_2.h`, `user_2.h` | array of users, descriptor sets, per-user numbered pipes, user pipes | select loop, accept, one shell line per ready client |
| Numbered-pipe shell | `final/npshell_1.h` (run by `np_simple.cpp`; copies in project 1 and in the other servers) | numbered pipes with the lines left, flags of the current line, `fd_in`, batch file | read a line, builtins, `|`, `|N`, `!N`, `>`, batch, wait |
| SOCKS4 server | `nctu_np_project4/socks_server.cpp` | per connection, in a process of its own: request, two sockets, two buffers, end flags | accept + fork, request, firewall, connect or bind, reply, relay, collect the process |
| Firewall | the same, `socks.conf` | none; the file is read for every request | permit or reject |
| CGI console | `nctu_np_project3/console.cpp`, project 4's `console.cpp`, `hw4.cpp` | up to five sessions, each with a file of commands and a socket | resolve, connect (project 4: through SOCKS), read until a prompt, send the next command |
| HTTP server | `nctu_np_project3/http_server.cpp` | its copy of the last socket, children | accept + fork, read one request, execute the program it names, collect children |
| Windows CGI server | `nctu_np_project3/windows_cgi_server/main.cpp` | all requests, pages and sessions in one process | the same, with the panel and the console as handlers |
| Commands, samples | `nctu_np_project3/command/`, `cgi/` | none | text filters, formatting |

How they interact.  The sessions of the multi-process server share nothing but
the table, the lock and signals.  `kill` of one process starts a handler in
another; the handler runs between any two steps of its process and takes no
lock.  The kernel applies `SEM_UNDO` when a process ends.  The shell and the
commands it forks share pipes: whoever holds a write end decides whether a
reader sees the end of its input.  A SOCKS process is a set of completion
handlers on one `io_service`, talking to two peers.  A console page is a process of
the HTTP server (on Windows: handlers inside it); its sessions are clients of
remote shells, directly or through the SOCKS server, and all write to the
browser's one connection.

What is hard about it, and makes it correct:

- *Multi-process server.*  Handlers reset `msg_count` while a sender increments
  it; pids stay in the table after their process; a slot is valid before its
  session has written its pid; processes die inside critical sections; a signal
  interrupts the wait for the lock.  Correct: a lock with one holder that
  nobody keeps after death; one living session per slot; a pid that leads to
  its owner; no message without a signal to come.
- *User pipes.*  Check, record and file are three separate moments.  Correct:
  nobody receives another user's data, or data overwritten meanwhile; a new
  user starts without pipes.
- *Single-process server.*  One process reads for all users, finds them by
  descriptor, keeps all their pipes open and stops for every command.  Correct: a
  socket leads to its user and to no other; pipes reach the line or user they
  were made for, complete; the process comes out of every `wait`.
- *Shell.*  Pipes counted down by lines of which some do not count; every
  write end has to be closed everywhere.  Correct: the reader on the right line
  gets all the output for it, and the shell comes back to its prompt.
- *SOCKS relay.*  Partial sends, two directions ending in any order, objects
  destroyed while operations are pending.  Correct: bytes arrive as sent, the
  end after the last byte, and sessions end.
- *Firewall.*  Addresses compared as texts.
- *Semaphore set.*  Created, counted and removed in several system calls, by processes
  that may die between any two, some of which never counted themselves.
  Correct: a set in use is initialised, once, and stays until its last user closes it.
- *Batch system.*  Prompts are recognised in whatever one read brings; connections
  are open in several processes; children end together; one session's failure
  may end its page or, on Windows, all pages.  Correct: the shell runs the file, in
  order; the browser sees the end of its page; no page disturbs another;
  every process is collected.

## 2. The modules

| Module | Models |
|---|---|
| `RwgShm` | server, sessions, table, messages, signals, lock |
| `RwgPipes` | user pipes between the sessions of `RwgShm` |
| `RwgSingle` | single-process server: select loop, users, pipes, commands |
| `NpShell` | shell engine with its commands |
| `SocksRelay` | the session and relay of one process of the SOCKS server |
| `RelayChannel` | abstract specification: two ordered byte streams |
| `SocksFirewall` | the firewall |
| `SocksServer` | one client of the SOCKS server from accept to collection; composes `SocksRelay` and `SocksFirewall` |
| `SemSet` | life of the semaphore set |
| `BatchSession` | the console's sessions and their remote shells |
| `CgiPages` | browsers, requests and connections |
| `HttpServer`, `WinServer` | the two HTTP servers with their pages |
| `RemoteBatch` | composes the last four |
| `RwgShmProofs`, `RwgPipesProofs`, `RwgSingleProofs`, `NpShellProofs`, `SemSetProofs`, `SocksServerProofs`, `RemoteBatchProofs` | theorems about the module of that name, and what it composes |
| `MC*` | instances for TLC |

### RwgShm

One process per element of `Pids` and one `Server`.  `pc` says where a process
is, `job` which critical section it is in or waits for:

- `alloc` (server: slot search, `np_multi_proc.cpp:125-145`), `reg` (new
  session writes its pid, `:158-160`), `cast`, `tell`, `left` (appending
  messages), `exit` (marking the slot free).
- `SemWait`/`SemSignal` are the two `semop` calls; `semadj` is the kernel's
  undo value; `ProcessEnd` applies it.
- The append is three steps, `Load`, `Store`, `Kill`, because
  `++msg_count` is a read and a write, and the handler (`HandlerStart`,
  `HandlerReset`) may run between them in another process.
- `Interrupts = TRUE` is the code: `sem_op` only prints when `semop` fails with
  `EINTR`, and its caller continues (`Resume`).  `Interrupts = FALSE` is the
  environment in which no handler returns during a wait.  Properties of the
  lock are stated for the second, all the others for both.
- `Alloc` with a full table takes any slot: `space_ind` is read without a
  value.  The history variable `full` remembers it.
- `ClientExit` is one SIGCHLD: one `wait()`, and the socket of the first slot
  that names the dead pid.
- `pid` starts with any mix of 0 and a dead pid: shared memory of a crashed
  server is not cleared.  `kill` to pid 0 signals every process of the group.
- `Die` is SIGPIPE at a write to a client that is gone, at the prompt or in
  the handler.  A slot of a dead session stays valid for ever.

History variables, read by properties only: `full`, `torn` (a sender died
between its append and its `kill`), `early` (messages already in the slot when
its session registered; nobody was signalled for those).

### RwgPipes

One session per slot (that there is at most one is `SlotExclusive` of
`RwgShm`).  Each critical section is one step; the checks before it are steps of
their own.  `rec` is `name_pipe_record`, `file` the content of
`user_pipe/S-R`, where a datum is the number of the line that wrote it.  The
flags `inFlag`/`outFlag` survive an ignored line, as in the code; a line
that runs with a stale output flag opens an uninitialised name, which is the old
name (`Open`) or another (`OpenElsewhere`).  `restarted` chooses whether
shared memory comes from a crashed server.

### RwgSingle

One step is one call of `select` with the accept that may follow (`Select`), or
the whole service of one ready descriptor: `npshell` for one line of one user,
then the prompt or the close.  Only a line that ends in `wait()` takes two
(`Run`/`Builtin`, `Waited`), because the forked commands (`kids`) run meanwhile.
Descriptors are served in ascending order (`todo`, `Turn`).

The tables of the code hold descriptor numbers, and so does the model: the kernel gives
the lowest free number (`Free`) to a client, and the two lowest to a pipe (`NextPipe`).  A
pipe is a number in the order of making; `ends` are the descriptor numbers of its two ends,
`rd` and `wr` the pipes whose read or write end the server has open.  Numbers of closed ends
go to sockets and pipes alike, while the tables keep them.  What a line closes (`Shut`, of
the pipe that is due and the user pipe it reads) and what a command gets as its input and
output (`Dup`) goes by the number: `Reading` and `Writing` close whatever has it now, a
client's socket included, after which the model goes no further (`lost`).  The history
variable `twice` says that a line has closed an end that was closed before.

- `Parse` follows the tokens of a line in their order, `<from` before `|n`/`>n` or
  after it (`outFirst`), as a function on the record of what a parse may change;
  an error stops it and undoes nothing (`Refused`).
- `due` gives every pipe ever made the slot and line its `|N` named; `held` are the write
  ends a command inherited at its fork.
- `EndOfFile` closes the descriptor and leaves the user valid: a ghost.
  When the kernel reuses the descriptor, `find_fd_user` finds the user in the lower slot,
  which may be the ghost.  The history variable `ghost` marks this; `full` is as in
  `RwgShm`.
- `Accept` leaves `vec` and `rec` of the slot alone, as the code does.
- `Killed` is SIGPIPE in the only process; `NoUser` is `user[-1]`, where
  the model ends.

### NpShell

The shell is sequential (`st`); the commands are a set of records that read,
write and end by themselves.  A line has one or two commands, each external or
builtin, and ends plainly, in `> f`, `|N` or `!N`.  `vec` is `num_pipe_vec`,
as a set (it has one pipe per line, so its order does not matter),
`wr` the write ends the shell holds, `held` those a command inherited.
`ReadLine` is the whole top of the loop: count down, find or make the numbered
pipe, set the flags.  `ToFile`, `ToNumbered` and `Ordinary` are the three ways
to run a command.  An external command either runs or is unknown, in which case
it ends at once.  `st = "lost"` is the state after the parent has closed its own
standard input (a builtin in front of a pipeline).

### SocksServer, SocksRelay, RelayChannel, SocksFirewall

In `SocksRelay` each pending asynchronous operation is a value of `phase` (set-up) or
`op[d]` (relay, per direction), and each handler one action.  `HttpSession` and
`BindSession` have the same relay.  Peers send the bytes 1, 2, 3, ... and end or
reset their streams, the client at any time, but it sends nothing behind its request
until that has been read: SOCKS4 has it wait for the reply, and `do_read`
(`socks_server.cpp:349-357`) would drop such bytes with the rest of its buffer.  For the
same reason the request arrives in one read.  `partial`, chosen initially, says whether
`async_send` may take only a part.  `Channel == INSTANCE RelayChannel WITH eof <-
flag, dlv <- Arrived` maps the relay to two byte streams; `Arrived` is what
has arrived when sends are whole, and how much when they are not, because
partial sends spoil the content (`resend`).

`SocksFirewall` reads one line of the configuration per step, chosen when it is
read; addresses have two octets of one or two digits, which is enough for one octet
to be a prefix of another.  A line without words ends the process
(`socks_vec[0]` of an empty vector).

`SocksServer` runs the two for one client: `Fork` (which may fail), then in the
child `Request`, the firewall's steps, and `Decide`, which connects, binds or
rejects as the verdict and the command say; `Exit` when no operation is pending, as
`io_service::run` returns; `Collect` in the server.  A handler runs to its end, so
nothing of the session happens between a request and its verdict.

### SemSet

One action per system call: `SemGet`, `OpLock`, `GetVal`, `SetLock`, `SetCount`,
`EndCreate` (`sem_create`), `SemWait`, `SemSignal`, `OpClose`, `LastReference`,
`SemRm`, `OpUnlock` (`sem_close`), so that other processes and `Crash` come
between any two.  `val` are the three semaphores, `adj` what `SEM_UNDO` gives
back at the end of a process; `SETVAL` clears it and the removal of the set with it.
Sets are numbered, and `id[p]` is the set `p` knows: calls on a removed one
fail, with `EINVAL` if it was removed before (`Again`: `sem_create` starts over)
and `EIDRM` if the process slept in it (`Orphaned`: `sem_create` only
reports it and returns the dead id).  A session inherits the id and the
SIGINT handler, and no adjustment.  History variables: `orphaned`, and `stray` (a
session has called `sem_close`).

### BatchSession, CgiPages, HttpServer, WinServer, RemoteBatch

A session (`BatchSession`) is a pair of a page and a slot.  `at` is the operation it
waits for.  A shell's output is a sequence of pieces of which only "does it hold a
`%`" matters; one read takes any number of those that have arrived, and if there
is a `%` among them the next line of the file is sent.  The remote shell takes any
number of the lines that have arrived, runs the first, and drops the rest, as
`npshell_2.h` does with one read.  `percent` and `swallowed` are history: the
shell wrote a `%` that was not a prompt; the first prompt went with the SOCKS
reply.  Projects 3 and 4 and Windows have the same session; `version` says
which server runs, and a page on Linux may use SOCKS (project 4).

`CgiPages` has the connections: `fds` are the pairs of a process and a page whose
socket it has open.  In `HttpServer` a page is a process: `Fork` gives it
every descriptor the server has, `ParentCloses` is the server's own close,
`ProcessEnds` leaves a zombie and at most one pending SIGCHLD, `Reap` collects all.
`ConsoleDies` is SIGPIPE at a write to the page, or the exception of a write
to a shell.  In `WinServer` the same things are handlers of one process (`server =
"ready"`), and an exception (`Throws`) makes it wait for a key with all sockets
open.  A request is for `panel`, `console` or another name, or never comes (`""`);
any of them may be cut short by the one read and then names no program
(`ExecFails`, `NotFound`).

## 3. What is checked

| Run | Bounds | Shows |
|---|---|---|
| `signals` | 2 slots, 2 sessions, 2 commands, interrupts | `TypeOK`, `SlotExclusive`, `PidReachesOwner`, `NoLostWakeup` |
| `lock` | 1 slot, 3 sessions, 1 command, one name, no interrupts, fair | `MutualExclusion`, `LockReleased`, `LockProgress` |
| `eintr` | as `signals`, 3 sessions | *violation* of `LockExcludes` |
| `names` | 2 slots, 2 sessions, one name | *violation* of `NamesUnique` |
| `pipes` | 2 users, 3 lines, fresh or inherited memory | `TypeOK`, `SenderIsThere`, `UntakenKept`, `MarksAreFresh` |
| `misread` | 2 users, 4 lines | *violation* of `ReceivesWhatWasPiped` |
| `shell` | N up to 2, pipes of 4 units, 4 commands on up to 4 lines (1 or 2 per line), batch file of 1 line, fair | `TypeOK`, `OnePipePerLine`, `OnTime`, `InputCanEnd`, `PromptReturns` |
| `relay` | one client; configurations of up to 2 lines, one digit; buffer of 2, 3 bytes each way, whole or partial sends, fair | `STypeOK`, `BytesCounted`, `EndAfterData`, `NamedIsPermitted`, `StarsAreExact`, `SessionEnds`, `ImplementsChannel` |
| `resend` | `SocksRelay` alone, 2 bytes | *violation* of `StreamIntact` |
| `single` | 2 slots, 2 clients, 10 descriptors, N = 1, 5 connections and lines in all, fair | `TypeOK`, `SocketHasUser`, `PipesHaveUsers`, `OnTime`, `PipeIsComplete`, `ServesAgain` |
| `batch` | 2 browsers, 2 sessions (on one page or two), 3 lines of files, both servers, fair | `TypeOK`, `RunsTheFile`, `OwnConnection`, `FileIsSent`, `PageEnds`, `Reaped`, `Undisturbed` |
| `semset` | 3 servers, 1 session, fair | `TypeOK`, `ValuesAreRight`, `KeepsItsSet`, `Returns` |

Why the bounds are enough:

- Two sessions and two slots let a slot be given up and taken again with the old
  pid still in it, a session die and keep its slot, and failed forks fill the
  table.  Two commands are two concurrent senders, or a sender and a leaver.
  Sessions are interchangeable, so `signals` uses symmetry; runs with liveness
  do not.
- The lock needs three: a holder, somebody who dies, and a third who would get in.
- A user pipe involves two users; three lines are a send, a receive and one
  more that interferes (an error, a stale flag, a second send).
- `OnePipePerLine` needs two lines that name a third; four lines also let a
  later line hold ends of pipes of earlier ones.  Two commands on a line give ordinary
  pipes and builtins before them; four commands in all are four lines of one, or two
  of two.  A pipe has room for the output of all four, see below.
- In `single`, five inputs are two connections and three lines (a send to a
  user, a receive, and a line that interferes), or a hang-up and a second connection in
  the ghost's descriptor.  A third client for two slots is what a hang-up and
  a reconnection make.  Five inputs never need ten descriptors, so nothing fails for
  want of one.  They are enough for a number to go from a pipe to a client, a user
  pipe or a numbered pipe and to be closed there by the line that still has it.
- The properties of `single` hold until that last thing happens (`~twice`).  Without the
  condition TLC finds `PipesHaveUsers` and `OnTime` violated within the bounds, by
  the lines in "What the models show besides".  `PipeIsComplete` has the condition too: a
  stale number may be that of a numbered pipe, whose writer the server does not
  wait for.
- Three bytes through a buffer of two give several reads and split sends.
- `semset`: one server in `sem_create`, one that closes, and one that uses the
  set; the session is the process that closes what it has not counted.  A set
  is made only after the last was removed, and three processes never make more
  than three: `MaxSets` (4) is never reached.
- `batch`: two pages are what one page can do to another; the two sessions are on one page
  or on two; a file of three lines is one that is sent, one that a misread
  `%` sends too early, and one that may be dropped.

Deadlock is not checked in any run: clients may stop typing, peers may stop sending, and
every bound ends the behaviours.  `PromptReturns`, `LockProgress`, `SessionEnds`,
`Returns`, `FileIsSent`, `PageEnds` and `Reaped` are what must not stop.

### Fairness

- `RwgShm!FairSpec`: weak fairness of every process's own steps and of its
  handler (the operating system schedules processes; a handler that prints to a
  client which does not read is ended by `Die` or goes on), strong fairness of
  `SemWait` because `semop` serves its sleepers in turn.  Not fair: a client's
  commands, its death, a new client; after a slot search the server leaves
  `fork` by one of its two ways.
- `NpShell!FairSpec`: the shell and, together, the commands run.  Typing is not fair.
- `RwgSingle!FairSpec`: `wait()` returns when the last command has ended, and
  commands whose input has ended end.  Commands run on their own, so what they wait
  for is decided by the pipe ends alone.  Clients and the select loop are not fair;
  `ServesAgain` does not need them.
- `SocksServer!SSpec`: the server accepts and collects, `io_service` runs handlers that
  are ready, a peer that is alive reads, and a connection is made or fails.
- `SemSet!FairSpec`: a process that has begun to create or to close goes on, and a
  critical section ends.  Nothing has to start, to stop or to crash.
- `RemoteBatch!FairSpec`: *some* handler, program or remote shell that can take a step
  does.  That is enough because every behaviour between two steps of browsers is
  finite; it is weaker than fairness per process, which the systems have.  Browsers,
  resets and the key on Windows are not fair.

### Violations

- `eintr`: a sleeping `semop` interrupted by SIGUSR1 or SIGCHLD fails, `sem_op`
  only prints (`semaphore.h:131`), and the process is inside with the holder.
- `names`: `check_name_exist` and the `strcpy` (`npshell_3.h:423-431`) are not
  one critical section; two users pass the check and both take the name.
- `misread`: the record of a user pipe is set while the line is parsed
  (`npshell_3.h:292`), before the command has written the file; the receiver
  reads an empty or an old file.
- `resend`: after a partial send, `in_do_write` sends the remaining length again from the
  start of the buffer (`socks_server.cpp:101`), so bytes are repeated and others
  never sent.

### What the models show besides

These behaviours are steps of the models that no run states as a property:

- A client beyond the table's size shares a slot (`Alloc`).
- `client_exit` may look a pid up in a slot whose next user has not registered
  yet, and closes that user's socket in the server.
- A session in its handler may lose its slot after `Leave`, and its last
  assignment clears the messages of the slot's next user.
- A user pipe may be marked for a user who has left between check and lock.
- In the single-process server a ghost keeps its name and slot and is sent
  messages through the descriptor of a later client; a line of that client may run as the
  ghost.  A client inherits the numbered pipes of its slot's last user.  A
  message to a client that hung up ends the server (`Killed`).  A line that names a user
  pipe and then has an error loses the pipe.
- In `np_single_proc` a line `cmd <1 >1` of user 1 makes the new pipe to itself
  in the place of the one it takes (`npshell_2.h:276`), and closes both ends of the new one
  (517, 565); its record stays.  The user's next `<1` finds the record, closes the same two
  numbers again and gives the read end's number to the command (576, 594, 632).  By then the kernel
  may have given them out: after `ls >1` and `cat <1 >1` of the first client, a second
  client connects and gets a freed number; the first one's next `cat <1` closes its socket
  in the server, where `select` then fails on it, and the `cat` reads it, so that `wait()` lasts
  until that client sends something or leaves.  The victim may as well be a user pipe of
  others, whose end is closed while it is on record, or somebody's numbered pipe, which
  the wrong command reads.
- In every `>n` command the child also opens `name_pipe_out_file`, which is never given a
  value in `npshell_2.h`, and creates a file of whatever name that is.
- `shock_pipe_out_flag` is never reset: after one `!N`, the error output of every
  `|N` goes into the pipe.  `write_file_flag` survives a line whose last command
  is a builtin.  After a batch file no typed line is run.
- If the output for one numbered pipe does not fit into it, the shell waits for
  its writers before it starts the reader, for ever: `PromptReturns` fails with
  `Capacity = 1` and `Output = 2`.  That is why `shell` has room for all output.
- The server's sessions run its SIGINT handler and add 1 to the process counter they never
  took 1 from.  With a session that has closed, the set can be removed while a server uses
  it, or stay for ever because the last close finds a count above `BIGCOUNT`;
  `KeepsItsSet` says that nothing else takes a server's set away.
- A process that sleeps in `sem_create` when the set is removed gets the id of the
  removed set, and runs without a lock.  A server that crashes leaves its set behind, with
  the counter right (`ValuesAreRight`).
- A command whose output holds a `%` makes the console send the next line early; a
  shell that reads both in one read drops the second.  Without such output the file is run
  exactly (`RunsTheFile`).
- If the first prompt comes with the SOCKS reply, it is lost, and the console waits
  for ever (`swallowed`).
- The exception of a write to a shell that is gone ends its page with all its sessions;
  on Windows, or when a browser leaves, all pages: the process waits for a key
  and keeps every connection open until then.
- The reply after a successful connect is read from freed memory.
- A firewall rule without a star also permits every longer address of which it is a
  prefix; `StarsAreExact` says that a rule with a star does not.
- A connection that fails, or one to 0.0.0.0, gets no SOCKS reply.

## 4. What is proved

Every safety property that a passing run checks, for every value of the constants the
assumptions allow.  The bounds of the runs (sessions, slots, lines, bytes, sets) are constants
there, so the theorems cover every number of them.  Each `*Proofs` module starts with its inductive
invariant, has a typing or frame lemma per table, one lemma per action or group of actions that
disturbs a part of the invariant, and `Invariance` as its first theorem; the others follow
from it.  The liveness properties stay with TLC.

### RwgShmProofs

From `ConstantsAssumption` alone:

| Theorem | Statement |
|---|---|
| `Invariance` | `Spec => []IInv` |
| `TypeCorrect` | `Spec => []TypeOK` |
| `LockIsExclusive` | `Spec => []MutualExclusion` |
| `LockIsReleased` | `Spec => []LockReleased` |
| `SlotsAreExclusive` | `Spec => []SlotExclusive` |
| `PidsReachOwners` | `Spec => []PidReachesOwner` |
| `WakeupsAreKept` | `Spec => []NoLostWakeup` |

The invariant is `IInv == TypeOK /\ PhaseOK /\ SlotInv /\ PidInv /\ (~Interrupts =>
LockInv)`.

- `MutualExclusion` needs the accounts of the semaphore (`LockInv`): a process
  inside has `semadj = 1`, everybody else 0, and `sem` is 0 exactly while
  somebody is inside.  Then the undo at a death gives back exactly what was taken.
- `SlotExclusive` needs `SlotInv`: between the slot search and the fork the
  server's slot is valid and belongs to nobody, so the new session is its only
  owner; a slot search finds only invalid slots, and those have no owner.
- `PidReachesOwner` needs `PidInv`: a session's pid is in the table only in the
  slot it owned itself.  So no slot but its own can hide it from the handler's search,
  and only its successor in that slot, which comes after it has left, overwrites it.
- `PhaseOK` ties `job` to `pc`, so that a process appending a message, say, is
  not taken for one registering its pid.
- `NoLostWakeup` is inductive beside `IInv`: an append leaves its sender at the `kill`;
  `PidReachesOwner` makes the `kill` find the owner and the owner's handler find its slot; and a
  handler resets the counter of no slot but its own, so it takes no message from another.
  The lock is not used, and the theorem holds with interrupted waits.

### RwgPipesProofs

From `PipesAssumption`: `TypeCorrect`, `SendersAreThere` (`SenderIsThere`), `UntakenIsKept`
(`UntakenKept`) and, an action property, `OnlyFreshMarks` (`MarksAreFresh`).  `IInv` adds
`Session(s)`, what a session relies on between two of its steps: the pipe it is about to mark
does not exist (only `s` marks pipes *from* `s`, so the check made without the lock stays
true), and no complete datum lies behind the file its output flag names, not even when the flag is
left over from an earlier line.

### NpShellProofs

From `ShellAssumption`: `TypeCorrect`, `LinesShareAPipe` (`OnePipePerLine`), `PipesAreOnTime`
(`OnTime`), `InputsCanEnd` (`InputCanEnd`).  `Countdown` is the heart of it: the line a pipe was
made for is the current line plus what `num_pipe_vec` says is left.  `OnePipePerLine` and `OnTime`
follow because a line decrements all of them and takes the one at zero.  `OrdinaryInput` (the pipe
of an ordinary `|` has its write end in the children only) makes `InputCanEnd` inductive.

### RwgSingleProofs

From `SingleAssumption`: `TypeCorrect`, `SocketsLeadToUsers` (`SocketHasUser`),
`RecordsAreLive` (`PipesHaveUsers`), `PipesAreOnTime` (`OnTime`) and `UserPipesAreComplete`
(`PipeIsComplete`).  The invariant is `IInv == Types /\ (~twice => Once)`: the types hold
always, the rest until a line closes an end by its number a second time.  `twice` is never
taken back (`TwiceStays`), so a step that ends without it began without it.  The parts of
`Once`:

- `Numbers`: no two open descriptors have the same number, be they sockets, read ends or
  write ends.  The kernel gives out free numbers only, so this holds over every step; and while a
  line closes only ends that are open, closing by number closes just those ends
  (`CloseExact`), and `dup2` gives just the pipe that was meant (`DupExact`).
- `Sockets`: until a client vanishes or finds no slot every user has a client.
  So a number the kernel gives out anew belongs to no user.
- `UserPipes`: `name_pipe` holds user pipes, each in one place, and one on record is open
  unless it is a user's pipe to itself; so no line but its receiver's closes it.
- `VectorsOnTime`: a numbered pipe in a slot's vector counts that slot's lines and is open.
- `CommandsOnTime`, `WriterAwaited`, `WriterAlone`: a command that reads a numbered pipe runs
  on the line it was made for; while a command writes into a user pipe the server
  is in `wait()`, so nobody is given that pipe to read until it is complete, and nobody
  reads it while another writes.

The parse of a line is a composition of functions on a record.  `Sound` says what
they preserve (old pipes keep their purpose, open descriptors their different numbers, records keep
their pipe, a user pipe that is written to is new); there is one lemma per function (`StartSound` ... `ParseSound`),
and the actions use `ParseSound` only.

### SemSetProofs

From `SemAssumption`: `LockInvariance` (semaphore [2] is a binary lock around creating and removing,
whatever crashes) and `TypeCorrect`.  Under the further hypothesis `Cardinality(Servers) <= BIGCOUNT`:
`Invariance`, `SetValuesAreRight` (`ValuesAreRight`) and `ServersKeepTheirSet` (`KeepsItsSet`).
The hypothesis is the code's own limit (`semaphore.h:5`, 31): with 31 servers in the set its
counter is 0, which is how `sem_create` recognises a new set, and a thirty-second server would
initialise it again under the others.

`LockInv` has the owner of [2] as the only process with an adjustment for it; `Owes` says what
each process's adjustments are, from where it stands; `Blank \/ Live` that a set is either still to be
initialised and unused, or was initialised once and its values are accounted for by
those adjustments, by counting the processes with each (`FiniteSetTheorems`); `LastOne` that the server
which removes a set has seen that no other counts and nobody has begun to since.

### SocksServerProofs

From `RelayAssumption` and `FirewallAssumption`: `SocksTypeCorrect` (`STypeOK`), `BytesArrive`
(`BytesCounted`, and `StreamIntact` while sends are whole), `EndComesLast` (`EndAfterData`), `NoRuleMissed` (`NamedIsPermitted`), `NoStarTooWide`
(`StarsAreExact`) and the refinement `SocksRefinesChannel` (`ImplementsChannel`).  `SInv` says of each
direction which operation is pending and what is in its buffer (`Turn`, `Counted`), of the
firewall that the lines read before the last permit nothing (`Reads`), and, while sends are
whole, that what was delivered are the first bytes of the stream and what is in the buffer the
next (`InOrder`).  From the last one the refinement follows: each step of the session is
a `Send`, `Deliver` or `End` of `RelayChannel` under the mapping, or leaves both streams as they are.
Types need `Digits # {}`: without digits there is no address for the state before a request.

### RemoteBatchProofs

From `BatchAssumption` and `PagesAssumption` (a page is not named like a state of the server):
`TypeCorrect`, `FilesAreRun` (`RunsTheFile`), `ConnectionsAreOwn` (`OwnConnection`) and, an
action property, `PagesAreUndisturbed` (`Undisturbed`).  `SessionsInv` is about the
conversation of a session: the lines that ran come before those on the way (`InOrder`), and
with a shell that writes `%` in prompts only there is one line or one prompt between the two,
never both (`TakesTurns`).  `PagesInv` is about connections: the Linux server has at most the
socket of the page it is about to fork for (`ServerFds`), so a child inherits no other.

### Only model-checked

- Liveness (`LockProgress`, `PromptReturns`, `SessionEnds`, `ServesAgain`, `Returns`, `FileIsSent`,
  `PageEnds`, `Reaped`): fairness and ENABLED are beyond the prover.
- That a file in `BatchSession` has at most `MaxLines` lines in all: the bound is stated with a sum
  over a set, which would need induction.  The type invariant asks for numbers of lines only.

The four violations are TLC's counterexamples.

## 5. What is not modelled, and why

- *Of the modelled components.*  Login banner and login/logout texts; the ten rows of the message
  array (only their count is kept); `who`, `setenv`, `printenv` (no shared
  state); commands that are themselves in the process group hit
  by `kill(0)`; the "just piped"/"just received" broadcasts of `RwgPipes`, which are
  appends as in `RwgShm`.  In `NpShell`: `|0`, end of file on standard input, nested
  or empty batch files, a file that is found and cannot be executed (the child
  goes on as a second shell), and the read ends the shell leaks.
  In `RwgSingle`: several commands on a line and `>file` (see `NpShell`), batch
  files, message texts, two lines in one read or half a line (the model's client types
  after its prompt), `|0`, commands that read a client's socket or write more
  than a pipe holds, and a file that is found and cannot be executed
  (`npshell_2.h:607-614`: the child goes on in the loop of `main` as a second server):
  those keep `wait()`, and so all users, waiting.  The model ends where a line has closed
  another client's socket (`lost`).  A ghost's socket number may be that of a pipe by now,
  and messages for the ghost are then written into the pipe; the model has the
  ghost and the number, not the message.
  In `SocksServer`: a request in more than one read and bytes behind it (see
  section 2), times, and several clients at once (they share nothing but
  the accept loop, which is that of `HttpServer`).  In `SemSet`: `sem_open`, which
  nothing calls; an interrupt during `sem_create`, when the handler closes set 0;
  an interrupted `semop` (`RwgShm` has it).  In the batch system: texts and
  their encoding, a browser that does not read, and more than one request on
  a connection (the code reads one).
- *Simple concurrent server* (`np_simple.cpp`): accept and fork; each child is one
  `NpShell`, and no state is shared.
- *Project 1 and parts 1-3 of project 2*: earlier copies of the engine.
- *Commands, samples*: text filters without state.

## 6. Plan

Done: the models of all components named in section 2, their runs, and proofs of every safety
property the runs check.

Next: an abstract specification of the message service of `RwgShm` (who is told of what) and the
proof that `RwgShm` implements it while no table is full; the composition of `RwgPipes` with the
lock of `RwgShm`, so that its critical sections need not be single steps; several commands on a line
in `RwgSingle`, with the lemmas about the parse extended to them; the safety half of `ServesAgain`
and `PromptReturns` as invariants (no cycle of commands and pipes that wait for each other).

To keep the runs few, questions about one module share a run where the state
space allows it.
