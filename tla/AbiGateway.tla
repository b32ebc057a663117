----------------------------- MODULE AbiGateway -----------------------------
(***************************************************************************)
(* The volatile ROMFS record and its two clients: the service romfsd       *)
(* (servers/romfsd.c), the probe of the service (drivers/romfs_probe.c)    *)
(* and root's Linux system-call gateway (src/domain_manager.c), which      *)
(* answers the faults of the Linux probe (drivers/linux_syscall_probe.c)   *)
(* and calls romfsd on its behalf.                                         *)
(*                                                                         *)
(* Both clients are started before root first blocks, so their lifecycles  *)
(* of the one volatile record interleave.  A client's call, romfsd's       *)
(* service of it and the client's return are three steps.                  *)
(***************************************************************************)
EXTENDS Naturals, Sequences

CONSTANT Failing  \* what may fail: romfsd's check of its archive, the start of
                  \* the Linux probe, and root's operations on its VSpace

Operations == {"archive", "spawn", "map", "provision", "tls"}
FailingAssumption == Failing \subseteq Operations

VARIABLES
  server,    \* romfsd: "starting", "serving" or "exited"
  word,      \* romfsd: selinos_volatile_state
  open,      \* romfsd: selinos_volatile_state_open
  msg,       \* the request of each client blocked in seL4_Call
  ans,       \* romfsd's answer the client has not taken yet
  probe,     \* romfs_probe: "ready", "calling", "passed" or "exited"
  pc,        \* romfs_probe: its next or current call
  root,      \* "boot", "waiting", "calling", "passed" or "failed"
  at,        \* root: the system call the gateway expects
  space,     \* root: what it has set up in the Linux probe
  linux,     \* Linux probe: "none", "ready", "faulting", "checking" or "looping"
  lpc,       \* Linux probe: its next or current system call
  syscall,   \* Linux probe: the fault root has to answer
  rax,       \* Linux probe: the value of its last system call
  page,      \* Linux probe: what root last wrote to its page
  inside,    \* history: clients between opening the record and their last write
  touched,   \* history: clients whose lifecycle another client's call has met
  failed     \* history: an operation has failed

serverVars == <<server, word, open>>
probeVars  == <<probe, pc>>
rootVars   == <<root, at, space>>
linuxVars  == <<linux, lpc, syscall, rax, page>>
history    == <<inside, touched, failed>>
vars == <<serverVars, msg, ans, probeVars, rootVars, linuxVars, history>>

Clients == {"probe", "root"}
Files   == {"release", "banner", "version"}          \* immutable
Words   == {"initial", "test"}                       \* of the volatile record

\* A request, by what romfsd tells apart: exact is FALSE for a wrong length.
Ask(op, file)  == [op |-> op, file |-> file, word |-> "none", exact |-> TRUE]
AskWrite(w)    == [Ask("WRITE", "state") EXCEPT !.word = w]
NoRequest      == Ask("none", "none")

Answer(status, payload) == [status |-> status, payload |-> payload]
Ok       == Answer("OK", "none")
BadFd    == Answer("EBADF", "none")
NoAnswer == Answer("none", "none")

-----------------------------------------------------------------------------
(* romfsd.                                                                 *)

ServerStarts ==
  /\ server = "starting"
  /\ server' = "serving"
  /\ UNCHANGED <<word, open, msg, ans, probeVars, rootVars, linuxVars, history>>

\* archive_self_check fails: main returns and nobody receives any more.
ServerExits ==
  /\ server = "starting"
  /\ "archive" \in Failing
  /\ server' = "exited"
  /\ failed' = TRUE
  /\ UNCHANGED <<word, open, msg, ans, probeVars, rootVars, linuxVars, inside,
                 touched>>

Serves(c, op) == server = "serving" /\ msg[c].op = op

ReplyTo(c, a) ==
  /\ ans' = [ans EXCEPT ![c] = a]
  /\ msg' = [msg EXCEPT ![c] = NoRequest]
  /\ UNCHANGED <<server, probeVars, rootVars, linuxVars, failed>>

\* A call of c on the volatile record meets the lifecycle of the others.
Touches(c) == touched' = touched \cup (inside \ {c})

\* Deviation: an open keeps the word of the last user.
ServeOpenKeeps(c) ==
  /\ Serves(c, "OPEN")
  /\ msg[c].file = "state"
  /\ open' = TRUE
  /\ inside' = inside \cup {c}
  /\ Touches(c)
  /\ ReplyTo(c, Ok)
  /\ UNCHANGED word

\* OPEN and OPEN_PATH of /selinos-state
ServeOpen(c) ==
  /\ Serves(c, "OPEN")
  /\ msg[c].file = "state"
  /\ word' = "initial"
  /\ open' = TRUE
  /\ inside' = inside \cup {c}
  /\ Touches(c)
  /\ ReplyTo(c, Ok)

ServeWrite(c) ==
  /\ Serves(c, "WRITE")
  /\ msg[c].exact
  /\ open
  /\ word' = msg[c].word
  /\ Touches(c)
  /\ ReplyTo(c, Ok)
  /\ UNCHANGED <<open, inside>>

\* Deviation: a refused write is not answered.
ServeWriteDropped(c) ==
  /\ Serves(c, "WRITE")
  /\ ~(msg[c].exact /\ open)
  /\ msg' = [msg EXCEPT ![c] = NoRequest]
  /\ UNCHANGED <<serverVars, ans, probeVars, rootVars, linuxVars, history>>

\* A malformed write, or one after a close; the latter ends the lifecycle.
ServeWriteRejected(c) ==
  /\ Serves(c, "WRITE")
  /\ ~(msg[c].exact /\ open)
  /\ inside' = IF open THEN inside ELSE inside \ {c}
  /\ ReplyTo(c, BadFd)
  /\ UNCHANGED <<word, open, touched>>

ServeClose(c) ==
  /\ Serves(c, "CLOSE")
  /\ msg[c].file = "state"
  /\ open' = FALSE
  /\ Touches(c)
  /\ ReplyTo(c, IF open THEN Ok ELSE BadFd)
  /\ UNCHANGED <<word, inside>>

\* Reads, and every call on an immutable record: they change nothing.
Looked(m) ==
  CASE m.op = "READ" /\ m.file = "state" -> IF open THEN Answer("OK", word) ELSE BadFd
    [] m.file \in Files -> IF m.op = "READ" THEN Answer("OK", m.file) ELSE Ok
    [] OTHER -> BadFd

ServeLook(c) ==
  /\ server = "serving"
  /\ msg[c] # NoRequest
  /\ msg[c].op = "READ" \/ msg[c].file \in Files
  /\ ReplyTo(c, Looked(msg[c]))
  /\ UNCHANGED <<word, open, inside, touched>>

Serve(c) == \/ ServeOpen(c) \/ ServeWrite(c) \/ ServeWriteRejected(c)
            \/ ServeClose(c) \/ ServeLook(c)

Server == ServerStarts \/ ServerExits \/ \E c \in Clients : Serve(c)

-----------------------------------------------------------------------------
(* romfs_probe: each call with the answer it wants.                        *)

Call(ask, want) == [ask |-> ask, want |-> want]

ProbeProgram ==
  << Call(Ask("OPEN", "release"),  Ok),
     Call(Ask("READ", "release"),  Answer("OK", "release")),
     Call(Ask("READ", "fd_99"),    BadFd),
     Call(Ask("CLOSE", "release"), Ok),
     Call(Ask("OPEN", "banner"),   Ok),
     Call(Ask("READ", "banner"),   Answer("OK", "banner")),
     Call(Ask("CLOSE", "banner"),  Ok),
     Call(Ask("OPEN", "state"),    Ok),
     Call(Ask("READ", "state"),    Answer("OK", "initial")),
     Call([AskWrite("none") EXCEPT !.exact = FALSE], BadFd),
     Call(Ask("READ", "state"),    Answer("OK", "initial")),
     Call(AskWrite("test"),        Ok),
     Call(Ask("READ", "state"),    Answer("OK", "test")),
     Call(Ask("CLOSE", "state"),   Ok),
     Call(AskWrite("initial"),     BadFd) >>

ProbeCalls ==
  /\ probe = "ready"
  /\ msg' = [msg EXCEPT !["probe"] = ProbeProgram[pc].ask]
  /\ probe' = "calling"
  /\ UNCHANGED <<serverVars, ans, pc, rootVars, linuxVars, history>>

\* On any other answer main returns 1.
ProbeReturns ==
  /\ probe = "calling"
  /\ ans["probe"] # NoAnswer
  /\ ans' = [ans EXCEPT !["probe"] = NoAnswer]
  /\ IF ans["probe"] # ProbeProgram[pc].want THEN probe' = "exited" /\ pc' = pc
     ELSE IF pc = Len(ProbeProgram) THEN probe' = "passed" /\ pc' = pc
     ELSE probe' = "ready" /\ pc' = pc + 1
  /\ UNCHANGED <<serverVars, msg, rootVars, linuxVars, history>>

Probe == ProbeCalls \/ ProbeReturns

-----------------------------------------------------------------------------
(* What the gateway accepts next: a system call by name and accepted        *)
(* arguments; the operations it performs (uses) on what it has set up       *)
(* (needs) and sets up (sets); what it writes to the probe's page (puts);   *)
(* its call to romfsd with the answer it wants; and the value it returns.   *)

Entry(nr, args, ret) ==
  [nr |-> nr, args |-> args, ret |-> ret, uses |-> {}, needs |-> {}, sets |-> {},
   puts |-> "none", ask |-> NoRequest, want |-> NoAnswer]

\* copy_linux_word_to_user and copy_linux_bytes_to_user into the mapped page
Puts(e, what) ==
  [e EXCEPT !.uses = @ \cup {"map"}, !.needs = @ \cup {"mmap"}, !.puts = what]

\* copy_linux_write_buffer and copy_linux_exact_string from the probe's image
Copies(e) == [e EXCEPT !.uses = {"map"}]

Romfs(e, ask, want) == [e EXCEPT !.ask = ask, !.want = want]

\* A read: the payload of the wanted answer goes to the probe's page.
ReadsWord(nr, file, word_) ==
  Puts(Romfs(Entry(nr, {file}, "8"), Ask("READ", file), Answer("OK", word_)),
       "payload")

Identity ==
  << Entry("getpid", {"none"}, "pid"),
     Entry("getuid", {"none"}, "0"),
     Entry("getgid", {"none"}, "0"),
     Entry("geteuid", {"none"}, "0"),
     Entry("getegid", {"none"}, "0"),
     Entry("gettid", {"none"}, "tid"),
     Entry("set_tid_address", {"tid_word"}, "tid"),
     Copies(Entry("write", {"stdout", "stderr"}, "length")) >>

Memory ==
  << [Entry("mmap", {"one_page"}, "mmap") EXCEPT !.uses = {"provision"},
                                                 !.sets = {"mmap"}],
     Puts(Entry("uname", {"mmap"}, "0"), "utsname"),
     [Entry("arch_prctl", {"set_mmap"}, "0") EXCEPT !.uses = {"tls"},
        !.needs = {"mmap"}, !.sets = {"tls"}],
     Puts([Entry("arch_prctl", {"get"}, "0") EXCEPT !.needs = {"tls"}], "tls_base") >>

Time ==
  << Puts(Entry("clock_gettime", {"mmap"}, "0"), "time"),
     Puts(Entry("getrlimit", {"mmap"}, "0"), "limit"),
     Entry("futex", {"wait"}, "-EAGAIN"),
     Entry("futex", {"wake"}, "0"),
     [Entry("brk", {"query"}, "base") EXCEPT !.uses = {"provision"},
                                             !.sets = {"brk"}],
     Entry("brk", {"base_and_page"}, "base_and_page") >>

Release ==
  << Romfs(Copies(Entry("openat", {"release"}, "3")), Ask("OPEN", "release"), Ok),
     ReadsWord("read", "release", "release"),
     Romfs(Entry("close", {"release"}, "0"), Ask("CLOSE", "release"), Ok) >>

Version ==
  << Romfs(Copies(Entry("openat", {"version"}, "6")), Ask("OPEN", "version"), Ok),
     Entry("fcntl", {"version"}, "0"),
     Puts(Entry("fstat", {"version"}, "0"), "stat"),
     ReadsWord("read", "version", "version"),
     Entry("getdents64", {"version"}, "-ENOTDIR"),
     Romfs(Entry("close", {"version"}, "0"), Ask("CLOSE", "version"), Ok) >>

\* The first openat is accepted for any path but the state's, and answered
\* without romfsd; a path that cannot be copied counts as another one.
VolatileOpen ==
  << Entry("openat", {"release", "version", "misspelt"}, "-ENOENT"),
     Romfs(Copies(Entry("openat", {"state"}, "5")), Ask("OPEN", "state"), Ok),
     [Entry("mprotect", {"mmap"}, "0") EXCEPT !.needs = {"mmap"}],
     Entry("lseek", {"state"}, "0"),
     ReadsWord("pread64", "state", "initial"),
     ReadsWord("read", "state", "initial") >>

VolatileWrite ==
  << Romfs(Copies(Entry("write", {"state"}, "8")), AskWrite("test"), Ok),
     ReadsWord("read", "state", "test"),
     Romfs(Entry("close", {"state"}, "0"), Ask("CLOSE", "state"), Ok),
     Romfs(Copies(Entry("write", {"state"}, "-EBADF")), AskWrite("test"), BadFd),
     Entry("read", {"nothing"}, "0"),
     Entry("exit", {"0"}, "none") >>

Gateway == Identity \o Memory \o Time \o Release \o Version \o VolatileOpen
             \o VolatileWrite

-----------------------------------------------------------------------------
(* The Linux probe: each system call, the value it compares in RAX, what it *)
(* compares in its page, and the memory it touches next.                    *)

Syscall(nr, arg, ret)       == [nr |-> nr, arg |-> arg, ret |-> ret,
                                sees |-> "none", uses |-> {}]
Sees(nr, arg, ret, what)    == [Syscall(nr, arg, ret) EXCEPT !.sees = what,
                                                             !.uses = {"mmap"}]
Uses(nr, arg, ret, region)  == [Syscall(nr, arg, ret) EXCEPT !.uses = region]

FirstCalls ==
  << Syscall("getpid", "none", "pid"), Syscall("getuid", "none", "0"),
     Syscall("getgid", "none", "0"), Syscall("geteuid", "none", "0"),
     Syscall("getegid", "none", "0"), Syscall("gettid", "none", "tid"),
     Syscall("set_tid_address", "tid_word", "tid"),
     Syscall("write", "stdout", "length"),
     Syscall("mmap", "one_page", "mmap"),
     Sees("uname", "mmap", "0", "utsname"),
     Syscall("arch_prctl", "set_mmap", "0"),
     [Sees("arch_prctl", "get", "0", "tls_base") EXCEPT !.uses = {"mmap", "tls"}],
     Sees("clock_gettime", "mmap", "0", "time"),
     Sees("getrlimit", "mmap", "0", "limit"),
     Syscall("futex", "wait", "-EAGAIN"), Syscall("futex", "wake", "0"),
     Syscall("brk", "query", "base"),
     Uses("brk", "base_and_page", "base_and_page", {"brk"}) >>

FileCalls ==
  << Syscall("openat", "release", "3"),
     Sees("read", "release", "8", "release"),
     Syscall("close", "release", "0"),
     Syscall("openat", "version", "6"),
     Syscall("fcntl", "version", "0"),
     Sees("fstat", "version", "0", "stat"),
     Sees("read", "version", "8", "version"),
     Syscall("getdents64", "version", "-ENOTDIR"),
     Syscall("close", "version", "0"),
     Syscall("openat", "misspelt", "-ENOENT"),
     Syscall("openat", "state", "5"),
     Syscall("mprotect", "mmap", "0"),
     Syscall("lseek", "state", "0"),
     Sees("pread64", "state", "8", "initial"),
     Sees("read", "state", "8", "initial"),
     Syscall("write", "state", "8"),
     Sees("read", "state", "8", "test"),
     Syscall("close", "state", "0"),
     Syscall("write", "state", "-EBADF"),
     Syscall("read", "nothing", "0"),
     Syscall("exit", "0", "none") >>

LinuxProgram == FirstCalls \o FileCalls

NoSyscall == [nr |-> "none", arg |-> "none"]
PageFault == [nr |-> "VM_fault", arg |-> "none"]

LinuxCalls ==
  /\ linux = "ready"
  /\ linux' = "faulting"
  /\ syscall' = [nr |-> LinuxProgram[lpc].nr, arg |-> LinuxProgram[lpc].arg]
  /\ UNCHANGED <<serverVars, msg, ans, probeVars, rootVars, lpc, rax, page, history>>

\* After root's reply: a mismatch ends in 1: jmp 1b, and a touch of memory root
\* has not set up is a fault of another kind.
LinuxChecks ==
  LET s == LinuxProgram[lpc] IN
  /\ linux = "checking"
  /\ IF rax # s.ret
       THEN linux' = "looping" /\ UNCHANGED <<lpc, syscall>>
     ELSE IF ~(s.uses \subseteq space)
       THEN linux' = "faulting" /\ syscall' = PageFault /\ lpc' = lpc
     ELSE IF s.sees \notin {"none", page}
       THEN linux' = "looping" /\ UNCHANGED <<lpc, syscall>>
     ELSE linux' = "ready" /\ lpc' = lpc + 1 /\ syscall' = syscall
  /\ UNCHANGED <<serverVars, msg, ans, probeVars, rootVars, rax, page, history>>

Linux == LinuxCalls \/ LinuxChecks

-----------------------------------------------------------------------------
(* Root: start_romfs_bundle has returned, run_linux_syscall_abi_probe runs. *)

unchangedByRoot == <<serverVars, probeVars, lpc, inside, touched>>

RootStarts ==
  /\ root = "boot"
  /\ root' = "waiting"
  /\ linux' = "ready"
  /\ UNCHANGED <<unchangedByRoot, msg, ans, at, space, syscall, rax, page, failed>>

\* The probe cannot be configured or spawned.
RootStartFails ==
  /\ root = "boot"
  /\ "spawn" \in Failing
  /\ root' = "failed"
  /\ failed' = TRUE
  /\ UNCHANGED <<unchangedByRoot, msg, ans, at, space, linux, syscall, rax, page>>

Receives == root = "waiting" /\ linux = "faulting"

Accepts(e) == syscall.nr = e.nr /\ syscall.arg \in e.args /\ e.needs \subseteq space

\* reply_linux_x86_64_syscall with value rax_, after page_ was written
Replies(e, written) ==
  /\ root' = "waiting"
  /\ at' = at + 1
  /\ linux' = "checking"
  /\ rax' = e.ret
  /\ page' = IF e.puts = "none" THEN page ELSE written
  /\ space' = space \cup e.sets

Fails(operation) ==
  /\ root' = "failed"
  /\ failed' = (failed \/ operation)
  /\ UNCHANGED <<at, space, linux, rax, page>>

\* Another fault than the one expected; or a mapping, a page or the TLS base is
\* not to be had (openat and write map the probe's page before they call romfsd,
\* a read after it).
GatewayRejects ==
  LET e == Gateway[at] IN
  /\ Receives
  /\ \E operation \in BOOLEAN :
       /\ IF operation
            THEN /\ Accepts(e)
                 /\ e.uses \cap Failing # {}
                 /\ e.ask = NoRequest \/ e.puts = "none"
            ELSE ~Accepts(e)
       /\ Fails(operation)
  /\ UNCHANGED <<unchangedByRoot, msg, ans, syscall>>

GatewayReplies ==
  LET e == Gateway[at] IN
  /\ Receives
  /\ Accepts(e)
  /\ e.ask = NoRequest
  /\ e.nr # "exit"
  /\ Replies(e, e.puts)
  /\ UNCHANGED <<unchangedByRoot, msg, ans, syscall, failed>>

\* call_romfs_root and call_romfs_root_open_path
GatewayCalls ==
  LET e == Gateway[at] IN
  /\ Receives
  /\ Accepts(e)
  /\ e.ask # NoRequest
  /\ root' = "calling"
  /\ msg' = [msg EXCEPT !["root"] = e.ask]
  /\ UNCHANGED <<unchangedByRoot, ans, at, space, linux, syscall, rax, page, failed>>

\* Deviation: the payload of romfsd's answer is not compared.
GatewayReturnsUnchecked ==
  LET e == Gateway[at]
      a == ans["root"] IN
  /\ root = "calling"
  /\ a # NoAnswer
  /\ ans' = [ans EXCEPT !["root"] = NoAnswer]
  /\ IF a.status = e.want.status THEN Replies(e, a.payload) /\ failed' = failed
     ELSE Fails(FALSE)
  /\ UNCHANGED <<unchangedByRoot, msg, syscall>>

\* A read maps the probe's page only after romfsd has answered.
GatewayReturns ==
  LET e == Gateway[at]
      a == ans["root"] IN
  /\ root = "calling"
  /\ a # NoAnswer
  /\ ans' = [ans EXCEPT !["root"] = NoAnswer]
  /\ \/ a = e.want /\ Replies(e, a.payload) /\ failed' = failed
     \/ a # e.want /\ Fails(FALSE)
     \/ a = e.want /\ e.puts # "none" /\ e.uses \cap Failing # {} /\ Fails(TRUE)
  /\ UNCHANGED <<unchangedByRoot, msg, syscall>>

\* exit(0) is not answered: the probe stays stopped, the gateway returns true.
GatewayEnds ==
  LET e == Gateway[at] IN
  /\ Receives
  /\ Accepts(e)
  /\ e.nr = "exit"
  /\ root' = "passed"
  /\ UNCHANGED <<unchangedByRoot, msg, ans, at, space, linux, syscall, rax, page,
                 failed>>

Root == \/ RootStarts \/ RootStartFails \/ GatewayRejects \/ GatewayReplies
        \/ GatewayCalls \/ GatewayReturns \/ GatewayEnds


-----------------------------------------------------------------------------
Init ==
  /\ server = "starting"
  /\ word = "initial"
  /\ open = FALSE
  /\ msg = [c \in Clients |-> NoRequest]
  /\ ans = [c \in Clients |-> NoAnswer]
  /\ probe = "ready"
  /\ pc = 1
  /\ root = "boot"
  /\ at = 1
  /\ space = {}
  /\ linux = "none"
  /\ lpc = 1
  /\ syscall = NoSyscall
  /\ rax = "none"
  /\ page = "none"
  /\ inside = {}
  /\ touched = {}
  /\ failed = FALSE

Next == Server \/ Probe \/ Root \/ Linux

\* Root is a thread of its own; the other three share one priority in turn.
Fairness == WF_vars(Server) /\ WF_vars(Probe) /\ WF_vars(Root) /\ WF_vars(Linux)

Spec == Init /\ [][Next]_vars /\ Fairness

-----------------------------------------------------------------------------
(* Properties.                                                             *)

\* The Linux probe never reaches its endless loop (1: jmp 1b): whatever the
\* other client does to the record, root answers only what the probe expects
\* and otherwise reports a failure, so the boot cannot hang on a wrong value.
NeverLoops == linux # "looping"

\* A client fails only when its lifecycle of the record was met by another
\* client's call, or an operation failed: alone, each sees the record it opened
\* (ROMFS_OP_OPEN resets the word; a write is read back; a close is final).
Isolation ==
  /\ probe = "exited" => "probe" \in touched
  /\ root = "failed" => "root" \in touched \/ failed

\* Root's boot reaches a verdict unless romfsd has returned from main; then root
\* may wait in seL4_Call for ever.
BootDecides == <>(root \in {"passed", "failed"} \/ server = "exited")

\* What the documentation says of the record: an open resets it "deliberately
\* preventing cross-probe state coupling"
\* (docs/phase12_writable_vfs_checkpoint_2026-08-14.md:57), so that root's verdict
\* does not depend on the other client.
NoCoupling == root = "failed" => failed

=============================================================================
