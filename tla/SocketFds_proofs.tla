-------------------------- MODULE SocketFds_proofs --------------------------
(***************************************************************************)
(* The invariants of SocketFds, for any threads, descriptors, capacity and *)
(* number of calls.                                                        *)
(***************************************************************************)
EXTENDS SocketFds, FiniteSetTheorems, WellFoundedInduction, TLAPS

CallTypes ==
  [op : Traced \union {"none"}, fd : Fds \union {NoFd}, stage : {"user", "entered", "done"},
   made : SUBSET Fds]
Entries == {Absent} \union { Present(fd) : fd \in Fds \union {NoFd} }

Types ==
  /\ fdTable \in [Fds -> {"free", "file", "socket"}]
  /\ tracked \subseteq Fds /\ Cardinality(tracked) <= SocketMapMax
  /\ call \in [Threads -> CallTypes]
  /\ enterState \in [Threads \X Traced -> Entries]
  /\ calls \in 0 .. MaxCalls
  /\ blind \subseteq Fds /\ ghost \subseteq Fds

(* A call on a descriptor has one, only a creating call has made any, and  *)
(* only the entry of a socket is saved for a close.                        *)
Calls ==
  \A th \in Threads :
    /\ call[th].op \in OnFd => call[th].fd \in Fds
    /\ call[th].made # {} => call[th].stage = "done" /\ call[th].op \in Creating
    /\ enterState[<< th, "close" >>].saved => enterState[<< th, "close" >>].fd \in Fds

(* The close of a thread that freed fd and whose entry says so.            *)
Closes(th, fd) ==
  /\ call[th].stage = "done" /\ call[th].op = "close" /\ call[th].fd = fd
  /\ enterState[<< th, "close" >>] = Present(fd)

(* A socket whose number a close under way will take out of the map.       *)
Reused == \A th \in Threads, fd \in Sockets : Closes(th, fd) => fd \in blind

(* UntrackedSocketsExplained, without the stage.                           *)
Unrecorded ==
  \A fd \in Sockets \ tracked : fd \in blind \/ \E th \in Threads : fd \in call[th].made

(* GhostsExplained, without the closes whose entry is another call's; and  *)
(* the same of a number that is yet to be added.                           *)
Gone ==
  /\ \A fd \in tracked \ Sockets : fd \in ghost \/ \E th \in Threads : Closes(th, fd)
  /\ \A th \in Threads : \A fd \in call[th].made \ Sockets : fd \in ghost

IInv == Types /\ Calls /\ Reused /\ Unrecorded /\ Gone

-----------------------------------------------------------------------------
(* A set of descriptors has a lowest one. *)
LEMMA LowestIs ==
  ASSUME NEW S \in SUBSET Fds, S # {}
  PROVE  Min(S) \in S
<1> DEFINE R == OpToRel(<, Nat)
<1>1. IsWellFoundedOn(R, Nat) /\ S \subseteq Nat
  BY NatLessThanWellFounded, SocketFdsAssumption DEF SocketFdsAssumption
<1> HIDE DEF R
<1>2. PICK x \in S : \A y \in S : ~ (<< y, x >> \in R)
  BY <1>1, WFMin
<1>3. ASSUME NEW y \in S PROVE x <= y
  <2>1. << y, x >> \notin R
    BY <1>2
  <2>2. y \in Nat /\ x \in Nat /\ << y, x >> \in Nat \X Nat
    BY <1>1
  <2>3. y < x => << y, x >> \in R
    BY <2>2 DEF R, OpToRel
  <2> QED
    BY <2>1, <2>2, <2>3
<1> QED
  BY <1>3 DEF Min

(* The descriptors are finitely many. *)
LEMMA FdsFinite ==
  \A S \in SUBSET Fds : IsFiniteSet(S) /\ Cardinality(S) \in Nat
  BY SocketFdsAssumption, FS_Subset, FS_CardinalityType DEF SocketFdsAssumption

(* What an entry is. *)
LEMMA EntryIs ==
  /\ Absent \in Entries /\ ~ Absent.saved
  /\ \A fd \in Fds \union {NoFd} : Present(fd) \in Entries
  /\ \A fd : Present(fd).saved /\ Present(fd).fd = fd
  /\ \A e \in Entries : e.saved => e = Present(e.fd) /\ e.fd \in Fds \union {NoFd}
  /\ \A fd, other : Present(fd) = Present(other) => fd = other
<1>1. \A fd : Present(fd).saved /\ Present(fd).fd = fd
  BY DEF Present
<1>2. /\ Absent \in Entries /\ ~ Absent.saved
      /\ \A fd \in Fds \union {NoFd} : Present(fd) \in Entries
  BY DEF Entries, Absent
<1>3. ASSUME NEW e \in Entries, e.saved PROVE e = Present(e.fd) /\ e.fd \in Fds \union {NoFd}
  <2>1. PICK fd \in Fds \union {NoFd} : e = Present(fd)
    BY <1>2, <1>3 DEF Entries
  <2> QED
    BY <1>1, <2>1
<1>4. ASSUME NEW fd, NEW other, Present(fd) = Present(other) PROVE fd = other
  <2>1. Present(fd).fd = Present(other).fd
    BY <1>4
  <2> QED
    BY <1>1, <2>1
<1> QED
  BY <1>1, <1>2, <1>3, <1>4

(* The kinds of calls. *)
LEMMA OpsAre ==
  /\ Traced = Creating \union OnFd
  /\ "close" \in OnFd /\ "close" \notin Creating /\ "none" \notin Traced
  BY DEF Traced, Creating, OnFd

(* Nothing is open, tracked or under way at first. *)
LEMMA InitInv == Init => IInv
<1> SUFFICES ASSUME Init PROVE IInv
  OBVIOUS
<1>1. Types
  <2>1. Cardinality({}) = 0 /\ SocketMapMax \in Nat /\ MaxCalls \in Nat
    BY FS_EmptySet, SocketFdsAssumption DEF SocketFdsAssumption
  <2>2. fdTable \in [Fds -> {"free", "file", "socket"}]
    BY DEF Init, Tables
  <2>3. UserMode \in CallTypes
    BY DEF UserMode, CallTypes
  <2> QED
    BY <2>1, <2>2, <2>3, EntryIs DEF Init, Types, Sockets
<1>2. Calls
  BY EntryIs, OpsAre DEF Init, Calls, UserMode
<1>3. Reused /\ Unrecorded /\ Gone
  BY DEF Init, Reused, Unrecorded, Gone, Closes, UserMode
<1> QED
  BY <1>1, <1>2, <1>3 DEF IInv

(* A step of one thread leaves the calls and the entries of the others.    *)
LEMMA OthersStay ==
  ASSUME Types, NEW th \in Threads, NEW c,
         call' = [call EXCEPT ![th] = c],
         \/ enterState' = enterState
         \/ \E op \in Traced, e \in Entries : enterState' = [enterState EXCEPT ![<< th, op >>] = e]
  PROVE  /\ call'[th] = c
         /\ \A t \in Threads \ {th} :
              /\ call'[t] = call[t]
              /\ enterState'[<< t, "close" >>] = enterState[<< t, "close" >>]
              /\ \A fd : Closes(t, fd)' <=> Closes(t, fd)
<1>1. call'[th] = c /\ \A t \in Threads \ {th} : call'[t] = call[t]
  BY DEF Types
<1>2. \A t \in Threads \ {th} :
        enterState'[<< t, "close" >>] = enterState[<< t, "close" >>]
  BY OpsAre DEF Types
<1> QED
  BY <1>1, <1>2 DEF Closes

(* A call is entered: its handler saves an entry, or not. *)
LEMMA EnterInv ==
  ASSUME IInv, NEW th \in Threads, NEW op \in Traced, NEW fd \in Fds \union {NoFd},
         op \in OnFd => fd \in Fds,
         Issue(th, op, fd),
         \/ enterState' = enterState
         \/ enterState' = [enterState EXCEPT ![<< th, op >>] = Present(fd)]
  PROVE  IInv'
<1> DEFINE c == [op |-> op, fd |-> fd, stage |-> "entered", made |-> {}]
<1>1. /\ Types /\ Calls /\ Reused /\ Unrecorded /\ Gone
      /\ Idle(th) /\ calls < MaxCalls /\ calls' = calls + 1
      /\ call' = [call EXCEPT ![th] = c]
      /\ UNCHANGED << fdTable, tracked, blind, ghost >>
      /\ Sockets' = Sockets /\ Sockets \subseteq Fds
  BY DEF IInv, Issue, Sockets
<1>2. c \in CallTypes /\ Present(fd) \in Entries
  BY EntryIs DEF CallTypes
<1>3. Types'
  BY <1>1, <1>2, SocketFdsAssumption DEF SocketFdsAssumption, Types
<1>4. /\ call'[th] = c
      /\ \A t \in Threads \ {th} :
           /\ call'[t] = call[t]
           /\ enterState'[<< t, "close" >>] = enterState[<< t, "close" >>]
           /\ \A f : Closes(t, f)' <=> Closes(t, f)
  <2> HIDE DEF c
  <2> QED
    BY <1>1, <1>2, OthersStay
<1>5. Calls'
  <2>1. \/ enterState'[<< th, "close" >>] = enterState[<< th, "close" >>]
        \/ op = "close" /\ enterState'[<< th, "close" >>] = Present(fd)
    BY <1>1, OpsAre DEF Types
  <2>2. enterState'[<< th, "close" >>].saved => enterState'[<< th, "close" >>].fd \in Fds
    BY <1>1, <2>1, EntryIs, OpsAre DEF Calls
  <2>3. c.op = op /\ c.fd = fd /\ c.made = {}
    OBVIOUS
  <2>4. ASSUME NEW t \in Threads \ {th}
        PROVE  /\ call'[t].op \in OnFd => call'[t].fd \in Fds
               /\ call'[t].made # {} => call'[t].stage = "done" /\ call'[t].op \in Creating
               /\ enterState'[<< t, "close" >>].saved => enterState'[<< t, "close" >>].fd \in Fds
    BY <1>1, <1>4 DEF Calls
  <2> HIDE DEF c
  <2> QED
    BY <1>4, <2>2, <2>3, <2>4 DEF Calls
<1>6. \A f : ~ Closes(th, f)' /\ ~ Closes(th, f)
  BY <1>1, <1>4 DEF Closes, Idle
<1>7. call[th].made = {}
  BY <1>1 DEF Calls, Idle
<1>8. /\ \A t \in Threads, f \in Fds : Closes(t, f)' <=> Closes(t, f)
      /\ \A t \in Threads : call'[t].made = call[t].made
  <2>1. call'[th].made = call[th].made
    BY <1>4, <1>7
  <2> QED
    BY <1>4, <1>6, <2>1
<1>9. Reused' /\ Unrecorded'
  BY <1>1, <1>8 DEF Reused, Unrecorded
<1>10. Gone'
  BY <1>1, <1>8 DEF Gone, Types
<1> QED
  BY <1>3, <1>5, <1>9, <1>10 DEF IInv

(* The enter handlers. *)
LEMMA EntersInv ==
  ASSUME IInv, NEW th \in Threads,
         \/ \E op \in Creating : CreatingEnter(th, op)
         \/ \E op \in OnFd, fd \in Fds : OnFdEnter(th, op, fd)
  PROVE  IInv'
<1>1. CASE \E op \in Creating : CreatingEnter(th, op)
  BY <1>1, EnterInv, OpsAre DEF CreatingEnter, Save, Creating, OnFd
<1>2. CASE \E op \in OnFd, fd \in Fds : OnFdEnter(th, op, fd)
  BY <1>2, EnterInv, OpsAre DEF OnFdEnter, Save
<1> QED
  BY <1>1, <1>2

(* The kernel has done its part of a call: what is left to show.           *)
LEMMA DoneInv ==
  ASSUME IInv, NEW th \in Threads, call[th].stage = "entered", NEW made \in SUBSET Fds,
         Done(th, made), made # {} => call[th].op \in Creating,
         fdTable' \in [Fds -> {"free", "file", "socket"}],
         blind' \subseteq Fds, ghost' \subseteq Fds
  PROVE  /\ Types' /\ Calls' /\ UNCHANGED tracked
         /\ \A fd : ~ Closes(th, fd)
         /\ \A fd : Closes(th, fd)' <=> /\ call[th].op = "close" /\ call[th].fd = fd
                                        /\ enterState[<< th, "close" >>] = Present(fd)
         /\ \A fd : \A t \in Threads \ {th} : Closes(t, fd)' <=> Closes(t, fd)
         /\ call[th].made = {} /\ call'[th].made = made
         /\ \A t \in Threads \ {th} : call'[t].made = call[t].made
<1> DEFINE c == [call[th] EXCEPT !.stage = "done", !.made = made]
<1>1. Types /\ Calls /\ call[th] \in CallTypes
  BY DEF IInv, Types
<1>2. call' = [call EXCEPT ![th] = c] /\ UNCHANGED << tracked, enterState, calls >>
  BY DEF Done
<1>3. /\ c \in CallTypes /\ c.stage = "done" /\ c.made = made
      /\ c.op = call[th].op /\ c.fd = call[th].fd
  BY <1>1 DEF CallTypes
<1> HIDE DEF c
<1>4. Types'
  BY <1>1, <1>2, <1>3 DEF Types
<1>5. /\ call'[th] = c
      /\ \A t \in Threads \ {th} :
           call'[t] = call[t] /\ \A fd : Closes(t, fd)' <=> Closes(t, fd)
  BY <1>1, <1>2, OthersStay
<1>6. Calls'
  BY <1>1, <1>2, <1>3, <1>5 DEF Calls
<1>7. call[th].made = {}
  BY <1>1 DEF Calls
<1> QED
  BY <1>2, <1>3, <1>4, <1>5, <1>6, <1>7 DEF Closes

(* The kernel's part of each call. *)
LEMMA CreatesInv == ASSUME IInv, NEW th \in Threads, KernelCreates(th) PROVE IInv'
<1>1. PICK op \in Creating :
        /\ Works(th, op)
        /\ Free # {} /\ (op = "socketpair" => Cardinality(Free) > 1)
        /\ LET first == Min(Free)
               made == IF op = "socketpair" THEN {first, Min(Free \ {first})} ELSE {first}
           IN  /\ fdTable' = [fd \in Fds |-> IF fd \in made THEN "socket" ELSE fdTable[fd]]
               /\ blind' = blind \union { fd \in made : Closing(fd) # {} }
               /\ ghost' = ghost \ made
               /\ Done(th, made)
  BY DEF KernelCreates
<1> DEFINE first == Min(Free)
           made == IF op = "socketpair" THEN {first, Min(Free \ {first})} ELSE {first}
<1>2. first \in Free /\ made \subseteq Free
  <2>1. first \in Free
    BY <1>1, LowestIs DEF Free
  <2>2. ASSUME op = "socketpair" PROVE Min(Free \ {first}) \in Free
    <3>1. Free \ {first} # {}
      <4>1. IsFiniteSet({first}) /\ Cardinality({first}) = 1
        BY FS_Singleton
      <4>2. Free # {first}
        BY <1>1, <2>2, <4>1
      <4> QED
        BY <2>1, <4>2
    <3>2. Free \ {first} \in SUBSET Fds
      BY DEF Free
    <3>3. Min(Free \ {first}) \in Free \ {first}
      BY <3>1, <3>2, LowestIs
    <3> QED
      BY <3>3
  <2> QED
    BY <2>1, <2>2
<1>3. /\ call[th].stage = "entered" /\ call[th].op \in Creating /\ Done(th, made)
      /\ fdTable' = [fd \in Fds |-> IF fd \in made THEN "socket" ELSE fdTable[fd]]
      /\ blind' = blind \union { fd \in made : Closing(fd) # {} }
      /\ ghost' = ghost \ made /\ made \in SUBSET Fds
  BY <1>1, <1>2 DEF Works, Free
<1> HIDE DEF made
<1>4. /\ Types /\ Reused /\ Unrecorded /\ Gone
      /\ fdTable' \in [Fds -> {"free", "file", "socket"}]
      /\ blind' \subseteq Fds /\ ghost' \subseteq Fds
      /\ Sockets' = Sockets \union made /\ Sockets \subseteq Fds
  BY <1>3 DEF IInv, Types, Sockets
<1>5. /\ Types' /\ Calls' /\ UNCHANGED tracked
      /\ \A fd : ~ Closes(th, fd)
      /\ \A fd : Closes(th, fd)' => call[th].op = "close"
      /\ \A fd : \A t \in Threads \ {th} : Closes(t, fd)' <=> Closes(t, fd)
      /\ call[th].made = {} /\ call'[th].made = made
      /\ \A t \in Threads \ {th} : call'[t].made = call[t].made
  BY <1>3, <1>4, DoneInv
<1>6. \A t \in Threads, fd \in Fds : Closes(t, fd)' <=> Closes(t, fd)
  BY <1>3, <1>5, OpsAre
<1>7. Reused'
  <2>1. \A t \in Threads, fd \in made : Closes(t, fd) => Closing(fd) # {}
    BY DEF Closes, Closing
  <2> QED
    BY <1>3, <1>4, <1>6, <2>1 DEF Reused
<1>8. Unrecorded'
  BY <1>3, <1>4, <1>5 DEF Unrecorded
<1>9. Gone'
  BY <1>3, <1>4, <1>5, <1>6 DEF Gone
<1> QED
  BY <1>5, <1>7, <1>8, <1>9 DEF IInv

(* No socket appears, and what disappears is explained. *)
LEMMA KernelInv ==
  ASSUME IInv, NEW th \in Threads, call[th].stage = "entered", Done(th, {}),
         fdTable' \in [Fds -> {"free", "file", "socket"}],
         blind' \subseteq Fds, ghost' \subseteq Fds,
         \A fd \in Sockets' : fd \in blind' \/ (fd \in Sockets /\ (fd \in blind => fd \in blind')),
         \A fd \in Sockets' : call[th].op = "close" => call[th].fd # fd,
         \A fd \in Fds \ Sockets' :
           /\ fd \in ghost => fd \in ghost'
           /\ fd \in Sockets =>
                \/ fd \in ghost'
                \/ /\ call[th].op = "close" /\ call[th].fd = fd
                   /\ Making(fd) = {}
                   /\ fd \in tracked => enterState[<< th, "close" >>] = Present(fd)
  PROVE  IInv'
<1>1. Types /\ Calls /\ Reused /\ Unrecorded /\ Gone
  BY DEF IInv
<1>2. /\ Types' /\ Calls' /\ UNCHANGED tracked
      /\ \A fd : ~ Closes(th, fd)
      /\ \A fd : Closes(th, fd)' <=> /\ call[th].op = "close" /\ call[th].fd = fd
                                     /\ enterState[<< th, "close" >>] = Present(fd)
      /\ \A fd : \A t \in Threads \ {th} : Closes(t, fd)' <=> Closes(t, fd)
      /\ \A t \in Threads : call'[t].made = call[t].made
  BY DoneInv
<1>3. Reused'
  BY <1>1, <1>2 DEF Reused
<1>4. Unrecorded'
  BY <1>1, <1>2 DEF Unrecorded
<1>5. \A fd : \A t \in Threads : fd \in call[t].made => Making(fd) # {}
  BY <1>1 DEF Calls, Making
<1>6. Gone'
  <2>1. \A fd \in tracked \ Sockets' : fd \in ghost' \/ \E t \in Threads : Closes(t, fd)'
    BY <1>1, <1>2 DEF Gone, Types
  <2>2. \A t \in Threads : \A fd \in call[t].made \ Sockets' : fd \in ghost'
    BY <1>1, <1>5 DEF Gone, Types, CallTypes
  <2> QED
    BY <1>2, <2>1, <2>2 DEF Gone
<1> QED
  BY <1>1, <1>2, <1>3, <1>4, <1>6 DEF IInv

(* The other parts of the kernel's. *)
LEMMA KernelsInv ==
  ASSUME IInv, NEW th \in Threads,
         KernelFails(th) \/ KernelIo(th) \/ KernelCloses(th)
  PROVE  IInv'
<1>1. Types /\ Calls /\ fdTable \in [Fds -> {"free", "file", "socket"}]
      /\ blind \subseteq Fds /\ ghost \subseteq Fds
  BY DEF IInv, Types
<1>2. CASE KernelFails(th) \/ KernelIo(th)
  <2>1. /\ call[th].stage = "entered" /\ call[th].op # "close" /\ Done(th, {})
        /\ UNCHANGED << fdTable, blind, ghost >>
    BY <1>2, OpsAre DEF KernelFails, KernelIo, Works
  <2> QED
    BY <1>1, <2>1, KernelInv DEF Sockets
<1>3. CASE KernelCloses(th)
  <2> DEFINE fd == call[th].fd
  <2>1. /\ call[th].stage = "entered" /\ call[th].op = "close" /\ Done(th, {})
        /\ fdTable' = [fdTable EXCEPT ![fd] = "free"]
        /\ blind' = blind \ {fd}
        /\ ghost' = ghost \union
             IF Making(fd) # {}
                \/ (fd \in tracked /\ enterState[<< th, "close" >>] # Present(fd))
             THEN {fd} ELSE {}
    BY <1>3 DEF KernelCloses, Works
  <2>2. fd \in Fds
    BY <1>1, <2>1, OpsAre DEF Calls
  <2> HIDE DEF fd
  <2>3. Sockets' = Sockets \ {fd} /\ fdTable' \in [Fds -> {"free", "file", "socket"}]
    BY <1>1, <2>1, <2>2 DEF Sockets
  <2>4. blind' \subseteq Fds /\ ghost' \subseteq Fds
    BY <1>1, <2>1, <2>2
  <2>5. fd = call[th].fd
    BY DEF fd
  <2> QED
    BY <1>1, <2>1, <2>2, <2>3, <2>4, <2>5, KernelInv
<1> QED
  BY <1>2, <1>3

(* The table changes in a way no probe sees. *)
LEMMA ChangeInv ==
  ASSUME IInv, NEW fd \in Fds, NEW kind \in {"free", "file", "socket"}, UnseenChange(fd, kind)
  PROVE  IInv'
<1>1. /\ Types /\ Calls /\ Reused /\ Unrecorded /\ Gone
      /\ calls < MaxCalls /\ calls' = calls + 1
      /\ fdTable' = [fdTable EXCEPT ![fd] = kind]
      /\ blind' = IF kind = "socket" THEN blind \union {fd} ELSE blind \ {fd}
      /\ ghost' = IF kind = "socket" THEN ghost \ {fd}
                  ELSE IF fdTable[fd] = "socket" /\ (fd \in tracked \/ Making(fd) # {})
                    THEN ghost \union {fd}
                  ELSE ghost
      /\ UNCHANGED << tracked, call, enterState >>
  BY DEF IInv, UnseenChange
<1>2. /\ fdTable' \in [Fds -> {"free", "file", "socket"}]
      /\ Sockets' = IF kind = "socket" THEN Sockets \union {fd} ELSE Sockets \ {fd}
      /\ fd \in Sockets <=> fdTable[fd] = "socket"
  BY <1>1 DEF Types, Sockets
<1>3. Types' /\ Calls'
  <2>1. calls' \in 0 .. MaxCalls
    BY <1>1, SocketFdsAssumption DEF SocketFdsAssumption, Types
  <2>2. blind' \subseteq Fds /\ ghost' \subseteq Fds
    BY <1>1 DEF Types
  <2>3. Types'
    BY <1>1, <1>2, <2>1, <2>2 DEF Types
  <2>4. Calls'
    BY <1>1 DEF Calls
  <2> QED
    BY <2>3, <2>4
<1>4. \A th \in Threads, f \in Fds : Closes(th, f)' <=> Closes(th, f)
  BY <1>1 DEF Closes
<1>5. Reused' /\ Unrecorded'
  BY <1>1, <1>2, <1>4 DEF Reused, Unrecorded, Sockets
<1>6. \A f : \A th \in Threads : f \in call[th].made => Making(f) # {}
  BY <1>1 DEF Calls, Making
<1>7. Gone'
  <2>1. \A f \in tracked \ Sockets' : f \in ghost' \/ \E th \in Threads : Closes(th, f)
    BY <1>1, <1>2 DEF Gone
  <2>2. \A th \in Threads : \A f \in call[th].made \ Sockets' : f \in ghost'
    BY <1>1, <1>2, <1>6 DEF Gone
  <2>3. tracked \subseteq Fds
    BY <1>1 DEF Types
  <2> QED
    BY <1>1, <1>4, <2>1, <2>2, <2>3 DEF Gone
<1> QED
  BY <1>3, <1>5, <1>7 DEF IInv

(* No thread is in a call any more, and what is untracked or stale after   *)
(* that is excused.                                                        *)
LEMMA RestartInv ==
  ASSUME IInv, calls < MaxCalls, calls' = calls + 1,
         fdTable' \in [Fds -> {"free", "file", "socket"}],
         call' = [th \in Threads |-> UserMode],
         blind' \subseteq Fds, Sockets' \ tracked \subseteq blind', ghost' = tracked \ Sockets',
         UNCHANGED << tracked, enterState >>
  PROVE  IInv'
<1>1. Types /\ Calls
  BY DEF IInv
<1>2. UserMode \in CallTypes
  BY DEF UserMode, CallTypes
<1>3. Types'
  <2>1. calls' \in 0 .. MaxCalls
    BY <1>1, SocketFdsAssumption DEF SocketFdsAssumption, Types
  <2>2. tracked' \subseteq Fds /\ ghost' \subseteq Fds /\ Cardinality(tracked') <= SocketMapMax
    BY <1>1 DEF Types
  <2>3. call' \in [Threads -> CallTypes] /\ enterState' \in [Threads \X Traced -> Entries]
    BY <1>1, <1>2 DEF Types
  <2> QED
    BY <2>1, <2>2, <2>3 DEF Types
<1>4. \A th \in Threads :
        /\ call'[th].made = {} /\ call'[th].op = "none"
        /\ \A fd : ~ Closes(th, fd)'
  BY DEF UserMode, Closes
<1>5. Calls'
  BY <1>1, <1>4 DEF Calls, OnFd
<1>6. Reused' /\ Unrecorded' /\ Gone'
  BY <1>4 DEF Reused, Unrecorded, Gone
<1> QED
  BY <1>3, <1>5, <1>6 DEF IInv

(* execve, and another process that gets the id. *)
LEMMA ReplacedInv == ASSUME IInv, Exec \/ ProcessReplaced PROVE IInv'
<1>1. CASE ProcessReplaced
  <2>1. Sockets' \subseteq Fds
    BY DEF Sockets
  <2> QED
    BY <1>1, <2>1, RestartInv DEF ProcessReplaced, Tables
<1>2. CASE Exec
  <2>1. PICK closed \in SUBSET Fds :
          fdTable' = [fd \in Fds |-> IF fd \in closed THEN "free" ELSE fdTable[fd]]
    BY <1>2 DEF Exec
  <2>2. /\ fdTable' \in [Fds -> {"free", "file", "socket"}]
        /\ Sockets' \subseteq Sockets /\ Sockets \subseteq Fds
    BY <2>1 DEF IInv, Types, Sockets
  <2>3. \A fd : \A th \in Threads : fd \in call[th].made => Making(fd) # {}
    BY DEF IInv, Calls, Making
  <2>4. Sockets' \ tracked \subseteq blind'
    BY <1>2, <2>2, <2>3 DEF Exec, IInv, Unrecorded
  <2> QED
    BY <1>2, <2>2, <2>4, RestartInv DEF Exec
<1> QED
  BY <1>1, <1>2

-----------------------------------------------------------------------------
(* A call returns; what its entry said is dropped, or there was none.      *)
LEMMA ReturnInv ==
  ASSUME IInv, NEW th \in Threads, NEW op \in Traced, Returns(th, op),
         \/ enterState' = enterState
         \/ Taken(th, op),
         blind' \subseteq Fds, ghost' \subseteq Fds,
         tracked' \subseteq Fds, Cardinality(tracked') <= SocketMapMax
  PROVE  /\ Types' /\ Calls' /\ Sockets' = Sockets
         /\ \A fd : Closes(th, fd) => op = "close" /\ fd = call[th].fd
                                    /\ enterState[<< th, "close" >>] = Present(fd)
         /\ \A fd : ~ Closes(th, fd)'
         /\ \A fd : \A t \in Threads \ {th} : Closes(t, fd)' <=> Closes(t, fd)
         /\ call'[th].made = {} /\ (call[th].made # {} => op \in Creating)
         /\ \A t \in Threads \ {th} : call'[t].made = call[t].made
<1>1. /\ Types /\ Calls
      /\ call[th].stage = "done" /\ call[th].op = op
      /\ call' = [call EXCEPT ![th] = UserMode] /\ UNCHANGED << fdTable, calls >>
  BY DEF IInv, Returns
<1>2. UserMode \in CallTypes /\ UserMode.stage = "user" /\ UserMode.op = "none"
      /\ UserMode.made = {}
  BY DEF UserMode, CallTypes
<1>3. \/ enterState' = enterState
      \/ enterState' = [enterState EXCEPT ![<< th, op >>] = Absent]
  BY DEF Taken
<1>4. Types'
  BY <1>1, <1>2, <1>3, EntryIs DEF Types
<1>5. /\ call'[th] = UserMode
      /\ \A t \in Threads \ {th} :
           /\ call'[t] = call[t]
           /\ enterState'[<< t, "close" >>] = enterState[<< t, "close" >>]
           /\ \A fd : Closes(t, fd)' <=> Closes(t, fd)
  <2>1. \/ enterState' = enterState
        \/ \E o \in Traced, e \in Entries : enterState' = [enterState EXCEPT ![<< th, o >>] = e]
    BY <1>3, EntryIs
  <2> QED
    BY <1>1, <2>1, OthersStay
<1>6. Calls'
  <2>1. enterState'[<< th, "close" >>].saved => enterState'[<< th, "close" >>].fd \in Fds
    <3>1. \/ enterState'[<< th, "close" >>] = enterState[<< th, "close" >>]
          \/ enterState'[<< th, "close" >>] = Absent
      BY <1>1, <1>3, OpsAre DEF Types
    <3> QED
      BY <1>1, <3>1, EntryIs DEF Calls
  <2>2. ASSUME NEW t \in Threads \ {th}
        PROVE  /\ call'[t].op \in OnFd => call'[t].fd \in Fds
               /\ call'[t].made # {} => call'[t].stage = "done" /\ call'[t].op \in Creating
               /\ enterState'[<< t, "close" >>].saved => enterState'[<< t, "close" >>].fd \in Fds
    BY <1>1, <1>5 DEF Calls
  <2>3. call'[th].made = {} /\ call'[th].op \notin OnFd
    BY <1>2, <1>5 DEF OnFd
  <2> QED
    BY <2>1, <2>2, <2>3 DEF Calls
<1>7. Sockets' = Sockets
  BY <1>1 DEF Sockets
<1>8. call[th].made # {} => op \in Creating
  BY <1>1 DEF Calls
<1> QED
  BY <1>1, <1>2, <1>4, <1>5, <1>6, <1>7, <1>8 DEF Closes

(* A return that leaves the map alone: what was made is explained by       *)
(* blind, what was closed by ghost.                                        *)
LEMMA UnseenInv ==
  ASSUME IInv, NEW th \in Threads, NEW op \in Traced, Returns(th, op),
         \/ enterState' = enterState
         \/ Taken(th, op),
         UNCHANGED tracked, blind' \subseteq Fds, ghost' \subseteq Fds,
         blind \subseteq blind', ghost \subseteq ghost',
         call[th].made \intersect Sockets \subseteq blind',
         op = "close" /\ enterState[<< th, "close" >>].saved => call[th].fd \in ghost'
  PROVE  IInv'
<1>1. Types /\ Reused /\ Unrecorded /\ Gone
  BY DEF IInv
<1>2. /\ Types' /\ Calls' /\ Sockets' = Sockets
      /\ \A fd : Closes(th, fd) => op = "close" /\ fd = call[th].fd
                                 /\ enterState[<< th, "close" >>] = Present(fd)
      /\ \A fd : ~ Closes(th, fd)'
      /\ \A fd : \A t \in Threads \ {th} : Closes(t, fd)' <=> Closes(t, fd)
      /\ call'[th].made = {}
      /\ \A t \in Threads \ {th} : call'[t].made = call[t].made
  BY <1>1, ReturnInv DEF Types
<1>3. Reused'
  BY <1>1, <1>2 DEF Reused
<1>4. Unrecorded'
  BY <1>1, <1>2 DEF Unrecorded
<1>5. \A fd : Closes(th, fd) => fd \in ghost'
  BY <1>2, EntryIs
<1>6. Gone'
  BY <1>1, <1>2, <1>5 DEF Gone
<1> QED
  BY <1>2, <1>3, <1>4, <1>6 DEF IInv

(* What is read back and finds room enters the map. *)
LEMMA ExitCreatesInv ==
  ASSUME IInv, NEW th \in Threads, NEW op \in Creating, ExitCreates(th, op)
  PROVE  IInv'
<1> DEFINE made == call[th].made
<1>0. PICK read \in ReadBack(th, op) : \E added \in SUBSET (read \ tracked) :
        /\ tracked' = tracked \union added
        /\ Cardinality(tracked') <= SocketMapMax
        /\ blind' = (blind \ { fd \in added : Closing(fd) = {} }) \union
             { fd \in made \ tracked' : fdTable[fd] = "socket" }
        /\ ghost' = ghost \union { fd \in added \ made : fdTable[fd] # "socket" }
  BY DEF ExitCreates
<1>1. PICK added \in SUBSET (read \ tracked) :
        /\ tracked' = tracked \union added
        /\ Cardinality(tracked') <= SocketMapMax
        /\ blind' = (blind \ { fd \in added : Closing(fd) = {} }) \union
             { fd \in made \ tracked' : fdTable[fd] = "socket" }
        /\ ghost' = ghost \union { fd \in added \ made : fdTable[fd] # "socket" }
  BY <1>0
<1>2. Types /\ Calls /\ Reused /\ Unrecorded /\ Gone /\ made \in SUBSET Fds
  BY DEF IInv, Types, CallTypes
<1>3. Returns(th, op) /\ Taken(th, op) /\ op \in Traced /\ op # "close"
  BY OpsAre DEF ExitCreates
<1>4. added \subseteq Fds
  BY <1>1, <1>2 DEF ReadBack
<1>5. /\ tracked' \subseteq Fds /\ Cardinality(tracked') <= SocketMapMax
      /\ blind' \subseteq Fds /\ ghost' \subseteq Fds
  BY <1>1, <1>2, <1>4 DEF Types
<1>6. /\ Types' /\ Calls' /\ Sockets' = Sockets
      /\ \A fd : ~ Closes(th, fd) /\ ~ Closes(th, fd)'
      /\ \A fd : \A t \in Threads \ {th} : Closes(t, fd)' <=> Closes(t, fd)
      /\ call'[th].made = {}
      /\ \A t \in Threads \ {th} : call'[t].made = call[t].made
  BY <1>3, <1>5, ReturnInv
<1>7. Sockets = { fd \in Fds : fdTable[fd] = "socket" }
  BY DEF Sockets
<1> HIDE DEF made
<1>8. Reused'
  <2>1. \A fd : \A t \in Threads : Closes(t, fd) => Closing(fd) # {}
    BY DEF Closes, Closing
  <2> QED
    BY <1>1, <1>2, <1>6, <2>1 DEF Reused
<1>9. Unrecorded'
  <2> SUFFICES ASSUME NEW fd \in Sockets, fd \notin tracked'
               PROVE  fd \in blind' \/ \E t \in Threads : fd \in call'[t].made
    BY <1>6 DEF Unrecorded
  <2>1. fd \in blind \/ \E t \in Threads : fd \in call[t].made
    BY <1>1, <1>2 DEF Unrecorded
  <2>2. fd \in made => fd \in blind'
    BY <1>1, <1>7
  <2>3. fd \in blind => fd \in blind'
    BY <1>1
  <2> QED
    BY <1>6, <2>1, <2>2, <2>3 DEF made
<1>10. Gone'
  <2>1. \A fd \in made \ Sockets : fd \in ghost'
    BY <1>1, <1>2 DEF Gone, made
  <2>2. \A fd \in added \ Sockets : fd \in ghost'
    BY <1>1, <1>4, <1>7, <2>1
  <2>3. ghost \subseteq ghost'
    BY <1>1
  <2> QED
    BY <1>1, <1>2, <1>6, <2>2, <2>3 DEF Gone
<1> QED
  BY <1>6, <1>8, <1>9, <1>10 DEF IInv

(* The descriptor in a close's entry leaves the map. *)
LEMMA ExitClosesInv == ASSUME IInv, NEW th \in Threads, ExitCloses(th) PROVE IInv'
<1> DEFINE fd == enterState[<< th, "close" >>].fd
           mispaired == fd # call[th].fd
<1>1. /\ tracked' = tracked \ {fd}
      /\ blind' = IF mispaired /\ fdTable[fd] = "socket" THEN blind \union {fd} ELSE blind
      /\ ghost' = (ghost \ (IF Making(fd) = {} THEN {fd} ELSE {}))
                    \union (IF mispaired THEN {call[th].fd} ELSE {})
      /\ Returns(th, "close") /\ Taken(th, "close") /\ enterState[<< th, "close" >>].saved
  BY DEF ExitCloses
<1>2. /\ Types /\ Calls /\ Reused /\ Unrecorded /\ Gone
      /\ call[th].stage = "done" /\ call[th].op = "close"
  BY <1>1 DEF IInv, Returns
<1>3. fd \in Fds /\ call[th].fd \in Fds /\ enterState[<< th, "close" >>] = Present(fd)
  BY <1>1, <1>2, OpsAre, EntryIs DEF Calls, Types
<1> HIDE DEF fd
<1>4. tracked' \subseteq Fds /\ Cardinality(tracked') <= SocketMapMax
  <2>1. /\ IsFiniteSet(tracked) /\ Cardinality(tracked) \in Nat
        /\ tracked' \subseteq tracked /\ Cardinality(tracked') \in Nat
    BY <1>1, <1>2, FdsFinite DEF Types
  <2>2. Cardinality(tracked') <= Cardinality(tracked)
    BY <2>1, FS_Subset
  <2> QED
    BY <1>2, <2>1, <2>2, SocketFdsAssumption DEF SocketFdsAssumption, Types
<1>5. blind' \subseteq Fds /\ ghost' \subseteq Fds
  BY <1>1, <1>2, <1>3 DEF Types
<1>6. /\ Types' /\ Calls' /\ Sockets' = Sockets
      /\ \A f : Closes(th, f) => f = call[th].fd /\ enterState[<< th, "close" >>] = Present(f)
      /\ \A f : ~ Closes(th, f)'
      /\ \A f : \A t \in Threads \ {th} : Closes(t, f)' <=> Closes(t, f)
      /\ call'[th].made = {} /\ call[th].made = {}
      /\ \A t \in Threads \ {th} : call'[t].made = call[t].made
  <2>1. "close" \in Traced /\ "close" \notin Creating
    BY OpsAre
  <2>2. Returns(th, "close") /\ Taken(th, "close")
    BY <1>1
  <2> QED
    BY <1>4, <1>5, <2>1, <2>2, ReturnInv
<1>7. Reused'
  BY <1>1, <1>2, <1>6 DEF Reused
<1>8. Unrecorded'
  <2>1. fd \in Sockets => fd \in blind'
    <3>1. fd \in Sockets /\ ~ mispaired => Closes(th, fd)
      BY <1>2, <1>3 DEF Closes
    <3> QED
      BY <1>1, <1>2, <3>1 DEF Reused, Sockets
  <2>2. blind \subseteq blind'
    BY <1>1
  <2>3. \A f \in Sockets \ tracked' : f \in blind' \/ \E t \in Threads : f \in call[t].made
    BY <1>1, <1>2, <2>1, <2>2 DEF Unrecorded
  <2> QED
    BY <1>6, <2>3 DEF Unrecorded
<1>9. Gone'
  <2>1. \A f : f # fd /\ f \in ghost => f \in ghost'
    BY <1>1
  <2>2. \A t \in Threads : fd \in call[t].made /\ fd \in ghost => fd \in ghost'
    <3>1. \A t \in Threads : fd \in call[t].made => Making(fd) # {}
      BY <1>2 DEF Calls, Making
    <3> QED
      BY <1>1, <3>1
  <2>3. \A f \in tracked' : ~ Closes(th, f)
    BY <1>1, <1>3, <1>6, EntryIs
  <2>4. \A f \in tracked' \ Sockets : f \in ghost' \/ \E t \in Threads : Closes(t, f)'
    BY <1>1, <1>2, <1>6, <2>1, <2>3 DEF Gone
  <2>5. \A t \in Threads : \A f \in call[t].made \ Sockets : f \in ghost'
    BY <1>2, <2>1, <2>2 DEF Gone
  <2> QED
    BY <1>6, <2>4, <2>5 DEF Gone
<1> QED
  BY <1>6, <1>7, <1>8, <1>9 DEF IInv

(* The other exit handlers. *)
LEMMA ExitsInv ==
  ASSUME IInv, NEW th \in Threads,
         \/ \E op \in Traced : ExitMiss(th, op) \/ ExitRefused(th, op)
         \/ ExitIo(th)
  PROVE  IInv'
<1>1. Types /\ Calls
  BY DEF IInv
<1>2. call[th].made \subseteq Fds
  BY <1>1 DEF Types, CallTypes
<1>3. ASSUME NEW op \in Traced, ExitMiss(th, op) PROVE IInv'
  <2>1. blind' = blind \union (call[th].made \intersect Sockets)
    BY <1>2, <1>3 DEF ExitMiss, Sockets
  <2> QED
    BY <1>1, <1>2, <1>3, <2>1, UnseenInv DEF ExitMiss, Types
<1>4. ASSUME NEW op \in Traced, ExitRefused(th, op) PROVE IInv'
  <2>1. blind' = blind \union (call[th].made \intersect Sockets)
    BY <1>2, <1>4 DEF ExitRefused, Sockets
  <2>2. /\ Returns(th, op) /\ Taken(th, op) /\ UNCHANGED tracked /\ call[th].op = op
        /\ ghost' = IF op = "close" THEN ghost \union {call[th].fd} ELSE ghost
    BY <1>4 DEF ExitRefused, Returns
  <2>3. op = "close" => call[th].fd \in Fds
    BY <1>1, <2>2, OpsAre DEF Calls
  <2> QED
    BY <1>1, <1>2, <2>1, <2>2, <2>3, UnseenInv DEF Types
<1>5. CASE ExitIo(th)
  <2>1. "io" \in Traced /\ "io" \notin Creating
    BY DEF Traced, OnFd, Creating
  <2>2. Returns(th, "io") /\ call[th].made = {}
    BY <1>1, <1>5, <2>1 DEF ExitIo, Returns, Calls
  <2> QED
    BY <1>1, <1>5, <2>1, <2>2, UnseenInv DEF ExitIo, Types
<1> QED
  BY <1>3, <1>4, <1>5

(* Every step keeps the invariant. *)
LEMMA NextInv == IInv /\ [Next]_vars => IInv'
<1> SUFFICES ASSUME IInv, [Next]_vars PROVE IInv'
  OBVIOUS
<1>1. CASE UNCHANGED vars
  BY <1>1 DEF vars, IInv, Types, Calls, Reused, Unrecorded, Gone, Closes, Sockets
<1> QED
  BY <1>1, EntersInv, CreatesInv, KernelsInv, ChangeInv, ExitCreatesInv, ExitClosesInv,
     ExitsInv, ReplacedInv DEF Next

(* The inductive invariant holds in every reachable state. *)
THEOREM Invariant == Spec => []IInv
<1>1. IInv /\ [Next]_vars => IInv'
  BY NextInv
<1> QED
  BY InitInv, <1>1, PTL DEF Spec

(* Types, and the map stays within its capacity. *)
THEOREM TypeCorrect == Spec => []TypeOK
<1>1. IInv => TypeOK
  BY DEF IInv, Types, CallTypes, Entries, TypeOK, Tables
<1> QED
  BY <1>1, Invariant, PTL

(* No live socket is untracked without one of the listed reasons           *)
(* (vishaya_network.bpf.c, emit_network_exit_event).                       *)
THEOREM UntrackedAreExplained == Spec => []UntrackedSocketsExplained
<1>1. IInv => UntrackedSocketsExplained
  BY DEF IInv, Calls, Unrecorded, UntrackedSocketsExplained, Making
<1> QED
  BY <1>1, Invariant, PTL

(* No number that is not a socket is taken for one without one of the      *)
(* listed reasons (vishaya_network.bpf.c, emit_network_exit_event).        *)
THEOREM GhostsAreExplained == Spec => []GhostsExplained
<1>1. IInv => GhostsExplained
  BY DEF IInv, Gone, GhostsExplained, Closes, Closing
<1> QED
  BY <1>1, Invariant, PTL
=============================================================================
