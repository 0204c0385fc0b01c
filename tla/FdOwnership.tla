---------------------------- MODULE FdOwnership -----------------------------
(***************************************************************************)
(* Descriptor wrappers of src/fd.rs and src/time/timer.rs over the         *)
(* process's descriptor table.                                             *)
(*                                                                         *)
(* The kernel side: fdtab maps each descriptor number to the open file     *)
(* description it refers to (Closed if none).  Descriptions 1..3 are the  *)
(* standard streams the process starts with; timers get fresh             *)
(* descriptions from 4 .. MaxDesc, an id being reused once nothing refers *)
(* to it (it is only a name).  Close-on-exec flags and the                *)
(* timer's own state are left out: no property here depends on them.     *)
(*                                                                         *)
(* The program side: slot[s] is the wrapper held in program variable s: an *)
(* FdIo, a raw c_int or a Timer, its number, its `owned` flag, and (an     *)
(* auxiliary field, not in the code) the description the number referred  *)
(* to when the wrapper was made.  For a raw c_int produced by              *)
(* From<Timer>, `owned` records that the ownership of an owning Timer was  *)
(* passed to the program, which must close the number itself.              *)
(***************************************************************************)
EXTENDS Integers, FiniteSets, FiniteSetsExt

CONSTANTS
  Slots,              \* program variables that hold wrappers
  MaxFd,              \* descriptor numbers are 0 .. MaxFd
  MaxDesc,            \* timer descriptions are 4 .. MaxDesc
  Mins,               \* arguments of duplicate_min (0 is duplicate())
  UnownedDuplicates   \* whether FdIo / c_int wrappers call duplicate*

Fds        == 0 .. MaxFd
StdFds     == {0, 1, 2}            \* STDIN, STDOUT, STDERR
Closed     == 0
TimerDescs == 4 .. MaxDesc
Kinds      == {"FdIo", "Int", "Timer"}

ASSUME MaxFd >= 3 /\ MaxDesc >= 4 /\ Mins \subseteq Fds

Handle   == [kind : Kinds, fd : Fds, owned : BOOLEAN, desc : 0 .. MaxDesc]
NoHandle == [kind |-> "none", fd |-> 0, owned |-> FALSE, desc |-> Closed]

VARIABLES fdtab, slot

vars == <<fdtab, slot>>

Init == /\ fdtab = [n \in Fds |-> IF n \in StdFds THEN n + 1 ELSE Closed]
        /\ slot = [s \in Slots |-> NoHandle]

Open(n)    == fdtab[n] # Closed
Live(s)    == slot[s] # NoHandle

\* Description ids no number and no wrapper refers to.
UnusedDescs == {d \in TimerDescs : /\ \A n \in Fds : fdtab[n] # d
                                   /\ \A s \in Slots : slot[s].desc # d}

\* The numbers F_DUPFD_CLOEXEC / timerfd_create may hand out: the kernel
\* returns the lowest of them, EMFILE if there is none.
FreeFrom(min) == {n \in Fds : n >= min /\ ~Open(n)}

\* close(n): the number is released; EBADF on a closed number is ignored.
Close(n) == fdtab' = [fdtab EXCEPT ![n] = Closed]

\* is_owned: only a Timer made by from_owned owns its number; FdIo and
\* c_int never do.
OwningKinds == {"Timer"}

\* Mutant: Timer::from_owned builds a borrowed Timer.
FromOwned_borrowed(kind, fd, d) ==
  [kind |-> kind, fd |-> fd, owned |-> FALSE, desc |-> d]

FromOwned(kind, fd, d) ==
  [kind |-> kind, fd |-> fd, owned |-> kind \in OwningKinds, desc |-> d]

\* A borrowed wrapper's description is not recorded: nothing depends on it.
FromBorrowed(kind, fd) ==
  [kind |-> kind, fd |-> fd, owned |-> FALSE, desc |-> Closed]

(***************************************************************************)
(* The program wraps a fresh timerfd: Timer::from_owned(timerfd_create()).  *)
(***************************************************************************)
NewTimer(s) ==
  /\ ~Live(s) /\ FreeFrom(0) # {} /\ UnusedDescs # {}
  /\ LET n == Min(FreeFrom(0))
         d == Min(UnusedDescs) IN
       /\ fdtab' = [fdtab EXCEPT ![n] = d]
       /\ slot' = [slot EXCEPT ![s] = FromOwned("Timer", n, d)]

\* The constants STDIN, STDOUT, STDERR (FdIo), or Timer::from_borrowed of
\* any number the program has.
Borrow(s) ==
  /\ ~Live(s)
  /\ \/ \E n \in StdFds : slot' = [slot EXCEPT ![s] = FromBorrowed("FdIo", n)]
     \/ \E n \in Fds : slot' = [slot EXCEPT ![s] = FromBorrowed("Timer", n)]
  /\ UNCHANGED fdtab

\* as_fdio: FdIo(self.borrow()), kept in another variable.
AsFdio(s, d) ==
  /\ Live(s) /\ ~Live(d)
  /\ slot' = [slot EXCEPT ![d] = FromBorrowed("FdIo", slot[s].fd)]
  /\ UNCHANGED fdtab

\* Which wrappers the configuration lets call duplicate*.
MayDuplicate(h) == h.kind \in OwningKinds \/ UnownedDuplicates

\* Mutant: the result of fcntl is wrapped without rv!, so an EMFILE
\* failure becomes a wrapper around -EMFILE.
Duplicate_noErrorCheck(s, d) ==
  /\ Live(s) /\ ~Live(d) /\ MayDuplicate(slot[s]) /\ Open(slot[s].fd)
  /\ \E min \in Mins :
       IF FreeFrom(min) # {}
         THEN LET n == Min(FreeFrom(min)) IN
                /\ fdtab' = [fdtab EXCEPT ![n] = fdtab[slot[s].fd]]
                /\ slot' = [slot EXCEPT ![d] =
                              FromOwned(slot[s].kind, n, fdtab[slot[s].fd])]
         ELSE /\ slot' = [slot EXCEPT ![d] = FromOwned(slot[s].kind, -24, 0)]
              /\ UNCHANGED fdtab

(***************************************************************************)
(* duplicate_min(min) (and duplicate() = duplicate_min(0)):                *)
(* F_DUPFD_CLOEXEC gives the lowest free number >= min with close-on-exec  *)
(* set, and the result is wrapped with Self::from_owned.  EBADF (closed    *)
(* source) and EMFILE (no free number) return an error and change nothing. *)
(***************************************************************************)
Duplicate(s, d) ==
  /\ Live(s) /\ ~Live(d) /\ MayDuplicate(slot[s]) /\ Open(slot[s].fd)
  /\ \E min \in Mins :
       /\ FreeFrom(min) # {}
       /\ LET n == Min(FreeFrom(min)) IN
            /\ fdtab' = [fdtab EXCEPT ![n] = fdtab[slot[s].fd]]
            /\ slot' = [slot EXCEPT ![d] =
                          FromOwned(slot[s].kind, n, fdtab[slot[s].fd])]

(***************************************************************************)
(* duplicate_as(new): dup3(fd, new, O_CLOEXEC) closes whatever `new`      *)
(* referred to and makes it refer to fd's description; EINVAL if           *)
(* new = fd, EBADF if fd is closed.  The caller keeps the usage contract   *)
(* of spec.md 2: it never targets a number some live wrapper owns.         *)
(* Replacing a standard stream is the intended use.                        *)
(***************************************************************************)
DuplicateAs(s, d) ==
  /\ Live(s) /\ ~Live(d) /\ Open(slot[s].fd)
  /\ \E new \in Fds :
       /\ new # slot[s].fd
       /\ \A o \in Slots : ~(slot[o].owned /\ slot[o].fd = new)
       /\ MayDuplicate(slot[s]) \/ new \in StdFds
       /\ fdtab' = [fdtab EXCEPT ![new] = fdtab[slot[s].fd]]
       /\ slot' = [slot EXCEPT ![d] =
                     FromOwned(slot[s].kind, new, fdtab[slot[s].fd])]

\* Mutant: drop closes without looking at `owned`.
Drop_ignoresOwned(s) ==
  /\ Live(s) /\ ~(slot[s].kind = "Int" /\ slot[s].owned)
  /\ IF slot[s].kind = "Timer"
       THEN Close(slot[s].fd)
       ELSE UNCHANGED fdtab
  /\ slot' = [slot EXCEPT ![s] = NoHandle]

(***************************************************************************)
(* A wrapper goes out of scope.  Timer::drop closes the number if the      *)
(* Timer owns it; FdIo and c_int have no destructor.  A raw c_int that     *)
(* carries ownership is not simply forgotten: see CloseRaw.                *)
(***************************************************************************)
Drop(s) ==
  /\ Live(s) /\ ~(slot[s].kind = "Int" /\ slot[s].owned)
  /\ IF slot[s].kind = "Timer" /\ slot[s].owned
       THEN Close(slot[s].fd)
       ELSE UNCHANGED fdtab
  /\ slot' = [slot EXCEPT ![s] = NoHandle]

\* Mutant: From<Timer> without mem::forget; the Timer's drop runs.
IntoRaw_noForget(s) ==
  /\ Live(s) /\ slot[s].kind = "Timer"
  /\ IF slot[s].owned THEN Close(slot[s].fd)
                      ELSE UNCHANGED fdtab
  /\ slot' = [slot EXCEPT ![s].kind = "Int"]

\* From<Timer> for c_int: take the number and mem::forget the Timer, so
\* its drop does not run; an owning Timer hands its ownership over.
IntoRaw(s) ==
  /\ Live(s) /\ slot[s].kind = "Timer"
  /\ slot' = [slot EXCEPT ![s].kind = "Int"]
  /\ UNCHANGED fdtab

\* The program disposes of a raw number it owns: it closes it, or wraps it
\* again with Timer::from_owned.
CloseRaw(s) ==
  /\ Live(s) /\ slot[s].kind = "Int" /\ slot[s].owned
  /\ Close(slot[s].fd)
  /\ slot' = [slot EXCEPT ![s] = NoHandle]

FromOwnedRaw(s) ==
  /\ Live(s) /\ slot[s].kind = "Int" /\ slot[s].owned
  /\ slot' = [slot EXCEPT ![s] = FromOwned("Timer", @.fd, @.desc)]
  /\ UNCHANGED fdtab

Next ==
  \/ \E s \in Slots :
       \/ NewTimer(s) \/ Borrow(s) \/ Drop(s)
       \/ IntoRaw(s) \/ CloseRaw(s) \/ FromOwnedRaw(s)
       \/ \E d \in Slots \ {s} : AsFdio(s, d) \/ Duplicate(s, d)
                                 \/ DuplicateAs(s, d)

Spec == Init /\ [][Next]_vars

-----------------------------------------------------------------------------
TypeOK ==
  /\ fdtab \in [Fds -> 0 .. MaxDesc]
  /\ slot \in [Slots -> Handle \cup {NoHandle}]

(***************************************************************************)
(* Every owner (an owning Timer, or a raw number whose ownership a Timer  *)
(* handed over through From<Timer>) still finds, under its number, the    *)
(* description it was given: nobody else closed or replaced it.  Broken   *)
(* by a drop that runs after the ownership was handed over, by a borrowed *)
(* wrapper closing, or by duplicate_as onto an owned number.              *)
(***************************************************************************)
OwnedHandleValid ==
  \A s \in Slots : slot[s].owned => fdtab[slot[s].fd] = slot[s].desc

(***************************************************************************)
(* Outside the standard streams, every open descriptor is owned by some   *)
(* live wrapper or raw number (spec.md 4.5: duplicate returns a new owned *)
(* wrapper; scope exit releases it).  A descriptor nobody owns is leaked. *)
(***************************************************************************)
DescriptorsHaveOwner ==
  \A n \in Fds \ StdFds :
    Open(n) => \E s \in Slots : slot[s].owned /\ slot[s].fd = n

(***************************************************************************)
(* A step that closes a number is its owner releasing it: the owner goes  *)
(* away in the same step, and the number still referred to the owner's    *)
(* description.  Neither a borrowed wrapper nor a stale owner (double     *)
(* close after the number was reused) ever closes a descriptor.           *)
(***************************************************************************)
ClosesOnlyOwned ==
  [][\A n \in Fds :
       (Open(n) /\ fdtab'[n] = Closed) =>
         \E s \in Slots : /\ slot[s].owned /\ slot[s].fd = n
                          /\ slot[s].desc = fdtab[n]
                          /\ slot'[s] = NoHandle]_vars
=============================================================================
