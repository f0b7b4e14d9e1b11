----------------------------- MODULE SocketFds ------------------------------
(***************************************************************************)
(* The network probes know a descriptor as a socket by socket_fd_state: an *)
(* entry is added when socket, socketpair or accept returns and removed    *)
(* when close returns.  read, write and close are recorded only for the    *)
(* descriptors in the map.  The map is updated by syscall-exit handlers,   *)
(* the descriptor table by the kernel between enter and exit, so two       *)
(* threads of one process can see the map behind the table; and the table  *)
(* changes in many ways that no probe sees.                                *)
(*                                                                         *)
(* One process (tgid) is modelled, and the processes that get its id after *)
(* it: their entries have the same keys.  A handler is one step, and so is *)
(* the kernel's work between the two handlers of a syscall.                *)
(***************************************************************************)
EXTENDS Naturals, FiniteSets, FiniteSetsExt

CONSTANTS
  Threads,       \* pid_tgid values of the process
  Fds, NoFd,     \* descriptor numbers, and the value for none
  SocketMapMax,  \* entries socket_fd_state has room for
  MaxCalls       \* bound on the syscalls and other changes of the table

ASSUME SocketFdsAssumption ==
  /\ Fds \subseteq Nat /\ IsFiniteSet(Fds) /\ NoFd \notin Fds
  /\ SocketMapMax \in Nat \ {0} /\ MaxCalls \in Nat

Creating == {"socket", "socketpair", "accept"}
OnFd == {"io", "close"}
Traced == Creating \union OnFd

(* What a saved enter payload keeps of the call: the descriptor it is on;  *)
(* nothing of a call that creates one (of socketpair, an address).         *)
Absent == [saved |-> FALSE, fd |-> NoFd]
Present(fd) == [saved |-> TRUE, fd |-> fd]

VARIABLES
  fdTable,     \* the kernel's descriptor table of the process
  tracked,     \* descriptors with an entry in socket_fd_state for this tgid
  call,        \* the syscall each thread is in, and how far
  enterState,  \* network_enter_state, per thread and kind
  calls,       \* syscalls and other changes of the table so far
  blind,       \* history: live sockets the map has a reason not to hold
  ghost        \* history: numbers the map has a reason to hold though no socket

vars == << fdTable, tracked, call, enterState, calls, blind, ghost >>

UserMode == [op |-> "none", fd |-> NoFd, stage |-> "user", made |-> {}]
Tables == [Fds -> {"free", "file", "socket"}]
Sockets == { fd \in Fds : fdTable[fd] = "socket" }
Free == { fd \in Fds : fdTable[fd] = "free" }
Idle(th) == call[th].stage = "user"

(* The threads whose close has freed its number and, on return, will drop  *)
(* the entry of fd, and those to which a new socket fd is yet to be        *)
(* returned.                                                               *)
Closing(fd) == { th \in Threads :
  call[th].stage = "done" /\ call[th].op = "close" /\ enterState[<<th, "close">>] = Present(fd) }
Making(fd) == { th \in Threads : call[th].stage = "done" /\ fd \in call[th].made }

(* Whether bpf_ringbuf_reserve finds room. *)
Reservations == BOOLEAN

(* What socketpair's exit reads where the caller's array was when it was   *)
(* entered: the numbers returned there; or nothing, or others, when the    *)
(* memory is gone or was written again, or the entry is an earlier call's. *)
ReadBack(th, op) ==
  IF op = "socketpair" /\ call[th].made # {} THEN { S \in SUBSET Fds : Cardinality(S) <= 2 }
  ELSE {call[th].made}

Init ==
  /\ fdTable \in Tables
  /\ tracked = {}
  /\ call = [th \in Threads |-> UserMode]
  /\ enterState = [key \in Threads \X Traced |-> Absent]
  /\ calls = 0
  /\ blind = Sockets
  /\ ghost = {}

-----------------------------------------------------------------------------
(* The syscall-enter half of a call: a thread goes from user mode into op. *)
Issue(th, op, fd) ==
  /\ Idle(th)
  /\ calls < MaxCalls
  /\ calls' = calls + 1
  /\ call' = [call EXCEPT ![th] = [op |-> op, fd |-> fd, stage |-> "entered", made |-> {}]]
  /\ UNCHANGED << fdTable, tracked, blind, ghost >>

(* save_network_enter_state: an entry that is already there is kept. *)
Save(th, op, fd) ==
  IF enterState[<<th, op>>].saved THEN UNCHANGED enterState
  ELSE enterState' = [enterState EXCEPT ![<<th, op>>] = Present(fd)]

(* on_sys_enter_socket, _socketpair, _accept, _accept4. *)
CreatingEnter(th, op) ==
  /\ op \in Creating
  /\ Issue(th, op, NoFd)
  /\ \E reserved \in Reservations :
       IF reserved THEN Save(th, op, NoFd) ELSE UNCHANGED enterState

(* on_sys_enter_read, _write, _readv, _writev, _close: only for a socket.  *)
OnFdEnter(th, op, fd) ==
  /\ op \in OnFd
  /\ Issue(th, op, fd)
  /\ \E reserved \in Reservations :
       IF reserved /\ fd \in tracked THEN Save(th, op, fd) ELSE UNCHANGED enterState

-----------------------------------------------------------------------------
(* The kernel's half. *)
Works(th, op) == call[th].stage = "entered" /\ call[th].op = op

Done(th, made) ==
  /\ call' = [call EXCEPT ![th].stage = "done", ![th].made = made]
  /\ UNCHANGED << tracked, enterState, calls >>

(* The lowest free numbers become sockets, two of them for socketpair.  A  *)
(* close that freed a number and has not returned will delete its entry    *)
(* after this, perhaps after the entry of the new socket was added.        *)
KernelCreates(th) ==
  \E op \in Creating :
    /\ Works(th, op)
    /\ Free # {} /\ (op = "socketpair" => Cardinality(Free) > 1)
    /\ LET first == Min(Free)
           made == IF op = "socketpair" THEN {first, Min(Free \ {first})} ELSE {first}
       IN  /\ fdTable' = [fd \in Fds |-> IF fd \in made THEN "socket" ELSE fdTable[fd]]
           /\ blind' = blind \union { fd \in made : Closing(fd) # {} }
           /\ ghost' = ghost \ made
           /\ Done(th, made)

(* The call fails: no descriptor is made. *)
KernelFails(th) ==
  /\ \E op \in Creating : Works(th, op)
  /\ Done(th, {})
  /\ UNCHANGED << fdTable, blind, ghost >>

KernelIo(th) ==
  /\ Works(th, "io")
  /\ Done(th, {})
  /\ UNCHANGED << fdTable, blind, ghost >>

(* close frees the number whatever it returns.  The entry stays behind     *)
(* when the close was not recorded, or when the socket's own creation has  *)
(* not returned yet and will add it afterwards.                            *)
KernelCloses(th) ==
  /\ Works(th, "close")
  /\ LET fd == call[th].fd
     IN  /\ fdTable' = [fdTable EXCEPT ![fd] = "free"]
         /\ blind' = blind \ {fd}
         /\ ghost' = ghost \union
              IF Making(fd) # {}
                 \/ (fd \in tracked /\ enterState[<<th, "close">>] # Present(fd))
              THEN {fd} ELSE {}
  /\ Done(th, {})

(* No probe sees these: a file is opened; dup, dup2 or F_DUPFD; a          *)
(* descriptor received over a socket or taken from another process;        *)
(* close_range; io_uring; all that a process sharing the table does.       *)
UnseenChange(fd, kind) ==
  /\ calls < MaxCalls
  /\ fdTable[fd] # "free" \/ kind # "free"
  /\ calls' = calls + 1
  /\ fdTable' = [fdTable EXCEPT ![fd] = kind]
  /\ blind' = IF kind = "socket" THEN blind \union {fd} ELSE blind \ {fd}
  /\ ghost' = IF kind = "socket" THEN ghost \ {fd}
              ELSE IF fdTable[fd] = "socket" /\ (fd \in tracked \/ Making(fd) # {})
                THEN ghost \union {fd}
              ELSE ghost
  /\ UNCHANGED << tracked, call, enterState >>

(* execve closes the descriptors marked close-on-exec and ends the other   *)
(* threads; the calls they were in may return unrecorded.                  *)
Exec ==
  /\ calls < MaxCalls
  /\ calls' = calls + 1
  /\ \E closed \in SUBSET Fds :
       fdTable' = [fd \in Fds |-> IF fd \in closed THEN "free" ELSE fdTable[fd]]
  /\ call' = [th \in Threads |-> UserMode]
  /\ blind' = (blind \union { fd \in Fds : Making(fd) # {} }) \intersect Sockets'
  /\ ghost' = tracked \ Sockets'
  /\ UNCHANGED << tracked, enterState >>

-----------------------------------------------------------------------------
(* The syscall-exit half: emit_network_exit_event.  The event itself is    *)
(* submitted, or discarded by the port filter, after the map was updated.  *)
Returns(th, op) ==
  /\ call[th].stage = "done" /\ call[th].op = op
  /\ call' = [call EXCEPT ![th] = UserMode]
  /\ UNCHANGED << fdTable, calls >>

Taken(th, op) == enterState' = [enterState EXCEPT ![<<th, op>>] = Absent]

(* No entry, so nothing is known of the call. *)
ExitMiss(th, op) ==
  /\ Returns(th, op)
  /\ ~ enterState[<<th, op>>].saved
  /\ blind' = blind \union { fd \in call[th].made : fdTable[fd] = "socket" }
  /\ UNCHANGED << tracked, enterState, ghost >>

(* The ring is full: the entry is dropped and socket_fd_state not updated. *)
ExitRefused(th, op) ==
  /\ FALSE \in Reservations
  /\ Returns(th, op)
  /\ enterState[<<th, op>>].saved
  /\ Taken(th, op)
  /\ blind' = blind \union { fd \in call[th].made : fdTable[fd] = "socket" }
  /\ ghost' = IF op = "close" THEN ghost \union {call[th].fd} ELSE ghost
  /\ UNCHANGED tracked

(* Variant of the next action that forgets the second socket of a pair.    *)
ExitCreatesAddsOne(th, op) ==
  /\ op \in Creating
  /\ Returns(th, op)
  /\ enterState[<<th, op>>].saved
  /\ Taken(th, op)
  /\ tracked' = tracked \union (IF call[th].made = {} THEN {} ELSE {Min(call[th].made)})
  /\ UNCHANGED << blind, ghost >>

(* add_socket_fd for each new descriptor; a map that is full, perhaps of   *)
(* other processes' entries, ignores the addition.                         *)
ExitCreates(th, op) ==
  /\ op \in Creating
  /\ Returns(th, op)
  /\ enterState[<<th, op>>].saved
  /\ Taken(th, op)
  /\ \E read \in ReadBack(th, op) : \E added \in SUBSET (read \ tracked) :
       /\ tracked' = tracked \union added
       /\ Cardinality(tracked') <= SocketMapMax
       /\ blind' = (blind \ { fd \in added : Closing(fd) = {} }) \union
            { fd \in call[th].made \ tracked' : fdTable[fd] = "socket" }
       /\ ghost' = ghost \union { fd \in added \ call[th].made : fdTable[fd] # "socket" }

ExitIo(th) ==
  /\ Returns(th, "io")
  /\ enterState[<<th, "io">>].saved
  /\ Taken(th, "io")
  /\ UNCHANGED << tracked, blind, ghost >>

(* Variant of the next action that deletes only after a close that freed a *)
(* live descriptor returned success; never used.                           *)
ExitClosesOnSuccess(th) ==
  /\ Returns(th, "close")
  /\ enterState[<<th, "close">>].saved
  /\ Taken(th, "close")
  /\ \E succeeded \in BOOLEAN :
       tracked' = IF succeeded THEN tracked \ {call[th].fd} ELSE tracked
  /\ UNCHANGED << blind, ghost >>

(* delete_socket_fd of the descriptor in the entry, whatever close         *)
(* returned.  The entry is another call's when one was left behind.        *)
ExitCloses(th) ==
  /\ Returns(th, "close")
  /\ enterState[<<th, "close">>].saved
  /\ Taken(th, "close")
  /\ LET fd == enterState[<<th, "close">>].fd
         mispaired == fd # call[th].fd
     IN  /\ tracked' = tracked \ {fd}
         /\ blind' = IF mispaired /\ fdTable[fd] = "socket" THEN blind \union {fd} ELSE blind
         /\ ghost' = (ghost \ (IF Making(fd) = {} THEN {fd} ELSE {}))
                       \union (IF mispaired THEN {call[th].fd} ELSE {})

-----------------------------------------------------------------------------
(* The process dies with its sockets open, which no close tells, and its   *)
(* id goes to a new one, which has what descriptors its parent had.        *)
ProcessReplaced ==
  /\ calls < MaxCalls
  /\ calls' = calls + 1
  /\ fdTable' \in Tables
  /\ call' = [th \in Threads |-> UserMode]
  /\ blind' = Sockets'
  /\ ghost' = tracked \ Sockets'
  /\ UNCHANGED << tracked, enterState >>

Next ==
  \/ \E th \in Threads :
       \/ \E op \in Creating : CreatingEnter(th, op) \/ ExitCreates(th, op)
       \/ \E op \in OnFd, fd \in Fds : OnFdEnter(th, op, fd)
       \/ KernelCreates(th) \/ KernelFails(th) \/ KernelIo(th) \/ KernelCloses(th)
       \/ \E op \in Traced : ExitMiss(th, op) \/ ExitRefused(th, op)
       \/ ExitIo(th) \/ ExitCloses(th)
  \/ \E fd \in Fds, kind \in {"free", "file", "socket"} : UnseenChange(fd, kind)
  \/ Exec \/ ProcessReplaced

Spec == Init /\ [][Next]_vars

-----------------------------------------------------------------------------
(* Type invariant; the map never outgrows its capacity.                    *)
TypeOK ==
  /\ fdTable \in Tables
  /\ tracked \subseteq Fds /\ Cardinality(tracked) <= SocketMapMax
  /\ call \in [Threads -> [op : Traced \union {"none"}, fd : Fds \union {NoFd},
                           stage : {"user", "entered", "done"}, made : SUBSET Fds]]
  /\ enterState \in [Threads \X Traced -> {Absent} \union { Present(fd) : fd \in Fds \union {NoFd} }]
  /\ calls \in 0 .. MaxCalls
  /\ blind \subseteq Fds /\ ghost \subseteq Fds

(* Traffic of a live socket goes unrecorded only for a reason: its call    *)
(* has yet to return or was not recorded, the pair's array was not read    *)
(* back as written, the map was full, its number came in a way no probe    *)
(* sees or from a parent, or another call's close took its number out.     *)
UntrackedSocketsExplained ==
  \A fd \in Sockets \ tracked : fd \in blind \/ Making(fd) # {}

(* A number that is no socket is taken for one only for a reason: its      *)
(* close has yet to return or was not recorded, the socket was closed      *)
(* before its creation returned, in a way no probe sees, by execve or with *)
(* its process, or a pair's array held the number when it was read back.   *)
GhostsExplained ==
  \A fd \in tracked \ Sockets : fd \in ghost \/ Closing(fd) # {}
=============================================================================
