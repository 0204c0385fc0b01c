# TLA+ models of linux-rs

This directory holds TLA+ models of the `linux-rs` runtime layer (the Rust
crate under `src/`), the TLC configurations that check them, and
`PROJECT.json`, which lists what each module models (the `map` from TLA+
definitions to source lines), every TLC run, the mutants that show each
property can fail, the findings and the hazards.

## 1. Inventory of the system

| Component | Source | State it keeps | Operations | Interacts with |
|---|---|---|---|---|
| Futex lock | `src/lock/lock.rs` | one `AtomicInt` word: UNLOCKED 0, LOCKED 1, WAITING 2; the kernel's futex wait queue on that word | `Lock::new`, `try_lock`, `lock`, `try_lock_for`, `LockGuard::drop`, `status`, unsafe `unlock` | futex_wait / futex_wake system calls, the monotonic clock, `Time` arithmetic, the result convention |
| Result and retry convention | `src/util/retry.rs`, `src/macros.rs` (`rv!`), `src/result.rs` | none (per call) | `retry` (two build-time policies), `rv!` decoding of a raw word | every typed call site (fd, timer, io) |
| Descriptor ownership | `src/fd.rs`, `src/time/timer.rs` | the process's descriptor table (kernel); per wrapper an fd number and an owned flag | `is_owned`, `borrow`, `from_owned`, `from_borrowed`, close-on-exec get/set, description flags get/set, `duplicate`, `duplicate_min`, `duplicate_as`, `Timer` settime/gettime/`ticks`, `Timer::drop`, `From<Timer> for c_int` | fcntl, dup3, timerfd, close, read via `retry` |
| Byte-stream I/O | `src/util/io.rs` | the remaining slice of a reader or writer | `read_all`, `write_all`, `copy_until`, `consume`, slice `scatter_read` / `gather_write`, `write_fmt_linux` | any `Read`/`Write`, `lmem::copy` |
| Time arithmetic | `src/time.rs` | none (values `Time {seconds, nanoseconds}`) | `normalize`, constructors, `Add`, `Sub`, `Ord`, timespec conversions | `try_lock_for`, `Timer` |
| Strings | `src/string/*.rs`, `src/util/kstr.rs` | none (borrowed byte slices) | `longest_sequence` (UTF-8 prefix), `trim`, `split_path`, `NoNullStr::set`, `strlen`, comparisons | Debug formatting, parse |
| POD capability | `src/util/pod.rs`, `macros/src/pod.rs`, `src/util/data.rs` | compile-time only | derive: one `assert::<FieldType>()` per field of a struct or union | `lmem::zeroed`, `as_mut_data`, `from_bytes` |
| Raw memory helpers | `src/lmem.rs` | none | `zeroed`, `copy`, `align_for`, `is_suitable_for`, `swap` | I/O slices, POD |
| Syscall dispatch | `src/syscall/raw/x86_64.rs` | none | `syscall0`..`syscall6`, arch wrappers | the kernel |
| Kernel ABI tables | `src/kty/gen.rs` | constants and layouts | `_IOC` and its decoders, `_IOR`/`_IOW`, the `si_*` accessors (computed at build time) | every syscall that passes a struct or an ioctl number |

How they interact: typed call sites (descriptor wrappers, timers, I/O) build
arguments, issue a system call through the dispatch layer, wrap it in `retry`
or `rv!`, and return a `Result`. The futex lock is the only component with
its own concurrency protocol: any number of threads or processes share its
word and meet in the kernel's futex queue. Note that `src/lib.rs` comments the
lock module out (`//pub mod lock;`) and `lock.rs` uses `Time`, `clock` and
`time_to_timespec` without importing them, so the lock is not compiled in this
snapshot; it is still the core the spec describes and is modelled as written.

What is hard:
- the futex lock: interleavings of compare-exchange, sub, store and the
  futex system calls by several threads; a wake-up racing a timeout; a thread
  taking the fast path while a woken waiter is between its wake-up and its
  compare-exchange; clock failures in the middle of the slow path;
- descriptor ownership: double close when two owning wrappers hold one
  number (`duplicate_as` onto a number a live owner holds), leaks when a
  non-owning wrapper receives a fresh descriptor (`FdIo::from_owned`);
- retry: re-issuing a call after EINTR, unbounded under the retry policy;
- I/O loops: partial reads and writes, zero-length results, errors after
  partial progress;
- time arithmetic: saturating and wrapping 64-bit arithmetic, normalization
  of negative nanoseconds;
- UTF-8 prefix scanning: the hand-written table of valid lead and
  continuation bytes.

Properties that make each component correct:
- Futex lock: at most one guard; the lock is acquired only while free and
  released by its owner; try_lock reports busy only while it is held; the
  word is UNLOCKED exactly when nobody holds the lock; no lost wake-up (a
  blocked caller is always covered by the WAITING mark or by a thread that
  will wake it); a contending `lock()` leads to someone holding the lock.
- Retry: only EINTR is retried, under the retry policy only; the result is the
  decoded result of the last attempt.
- Descriptors: an owned descriptor is closed exactly once, a borrowed one
  never; `duplicate` yields a distinct number with close-on-exec set; no
  wrapper closes a number it does not own.
- I/O: `write_all` returns Ok(n) only with n = the buffer length, `read_all`
  returns the bytes actually read, `copy_until` stops after the stop byte.
- Time: normalize yields nanoseconds in [0, 1e9) and preserves the value
  when no saturation happens; Ord agrees with the value; Add/Sub agree with
  integer arithmetic up to saturation.
- Strings: `longest_sequence` returns the longest prefix that is valid UTF-8.
- POD: the derive's per-field obligation holds exactly for the types that are
  POD by the recursive definition.

## 2. Plan

Modules, in order of importance (the futex lock first):

1. `LockSpec` (abstract lock: owner, per-thread results) and `FutexLock`
   (the code), composed in `MCFutexLock` with the refinement mapping. **Done.**
2. `Retry` (**done**): both policies of `retry` and the `rv!` decoding, with a
   nondeterministic sequence of raw results; checked against the spec's
   reference behaviour.
3. `FdOwnership` (**done**, without close-on-exec and the timer calls): the process descriptor table and a few wrappers (FdIo,
   c_int, Timer), with duplicate, duplicate_as, drop and From<Timer>;
   properties: no double close, no close of a number the wrapper does not own,
   no leak of descriptors created as owned.
4. `TimeArith` (**done**): `normalize`, `Add`, `Sub`, `Ord` with 64-bit saturation
   scaled down (a constant bound on seconds) and the constructors with
   wrapping multiplication; checked against integer nanosecond arithmetic.
5. `IoLoops` (**done**): `read_all`, `write_all`, `copy_until`, slice
   `scatter_read` / `gather_write` against slice devices and descriptors that
   return arbitrary partial counts, zero and errors.
6. `ByteStrings` (**done**): `longest_sequence` as a RECURSIVE operator
   compared with a reference definition of UTF-8 validity over bounded byte
   strings; also `trim`, `split_path`, `strlen` and the CStr views.
7. `PodDerive` (**done**): the derive's obligation over a small type graph
   compared with the recursive definition. `LMem` (**done**): `align_for` and
   `from_bytes` address arithmetic at a 4-bit usize.

8. `TimerSpec` and `TimerFd` (**done**): the abstract timer of the doc
   comments, and `Timer`'s setters, `status` and `ticks` over a kernel
   timerfd, shown to refine it; composed with `Retry` in `MCRetry`.
9. `SyscallAbi` (**done**): the register constraints of `syscall0`..`syscall6`
   against the kernel's system-call ABI, and the x86_64 wrappers that
   stand in for other entry points.

Close-on-exec and `parse.rs` are discussed in section 9.

Later, if TLC allows: the futex lock composed with `TimeArith` for the
deadline computation (a concrete monotonic clock instead of a
nondeterministic deadline check).

## 3. The futex lock model

`FutexLock.tla` has one step per atomic operation of `lock.rs` and per futex
system call; the code between two of them touches only thread-local state and
is folded into the step before it.

| Variable | Code |
|---|---|
| `val` | `Lock::val` (the AtomicInt) |
| `pc[t]` | where thread `t` is in `try_lock`, `lock`, `try_lock_for` or `LockGuard::drop` |
| `op[t]` | which of those methods `t` is running |
| `status[t]` | the local `status` of `lock` / `try_lock_for` |
| `queue` | the kernel futex wait queue on `val` (FIFO among equal priorities) |
| `ret[t]` | the result of `t`'s last call (ok, busy, timedout, clockerr) |

| Action | Code |
|---|---|
| `try_lock` | `compare_exchange(UNLOCKED, LOCKED)`, guard or ResourceBusy |
| `lock` | fast path of `lock` |
| `try_lock_for` | fast path of `try_lock_for` and the first clock read (its failure returns) |
| `MarkWaiting` | loop head `status == WAITING \|\| compare_exchange(LOCKED, WAITING) != UNLOCKED` |
| `FutexWait` | `futex_wait(&val, WAITING, ..)`: sleep if the word is WAITING, else EAGAIN |
| `Woken`, `Interrupted`, `FutexTimedOut` | futex_wait returning 0 (dequeued by a wake), EINTR, ETIMEDOUT (break) |
| `AcquireContended` | `compare_exchange(UNLOCKED, WAITING)`; for try_lock_for the second clock read: error, deadline passed, or loop |
| `ReleaseSub`, `ReleaseStore`, `ReleaseWake` | `LockGuard::drop` (at scope end or through `LockGuard::unlock`, which consumes the guard): `sub(1)`, `store(UNLOCKED)`, `futex_wake(&val, 1)` |

Time is abstracted: whether the deadline has passed at a clock read, and
when a relative futex timeout expires, are nondeterministic choices. This is
sound because the monotonic clock and scheduling can make any of them happen.

Fairness: each thread's steps other than starting a call and being
interrupted by a signal are weakly fair (`WF_vars(Step(t))`): the code between
atomic operations is straight-line, a guard's scope ends (the critical
section terminates), a woken futex_wait returns, and a relative timeout
expires. Starting a call is the program's choice, and signals may never come,
so neither is fair.

`StatusOf` is `Lock::status()` (the variant the word maps to), and
`LockWordReflectsOwner` is stated through it. `SleepersCovered` is about
the other answers. The doc comment says `Locked` means "nobody is
waiting", but a thread can be asleep in `futex_wait` while the word reads
LOCKED or UNLOCKED. This happens, for example, after a contended release
wakes one of two sleepers and a newcomer takes the fast path. The property
says such a state is always transient: some thread is committed to waking
the sleeper or to marking the word WAITING again. That thread is a
releaser between `sub` and `futex_wake`, a waiter already woken, or a
`lock()` caller in its slow path. Together with `LockWordReflectsOwner`
(WAITING implies a holder, whose drop wakes), it implies `NoStrandedSleeper`
in every state, not only in quiescent ones. Mutants that skip the wake,
test `sub`'s new value, or acquire with LOCKED after a wake-up break it.
With `try_lock_for` it fails in the way the finding below describes.

`MCFutexLock.tla` maps the code to `LockSpec`: the owner is the thread in
`cs` or in `rel_store` (between `sub` returning WAITING and `store(UNLOCKED)`,
the word still reads locked), `ret` maps to itself.

### Runs

| Run | Config | Checks | Result |
|---|---|---|---|
| `lock_safety` | 3 threads, all three methods, signals | `TypeOK`, `LockWordReflectsOwner`, `LockRefinement` | pass (about 2.2 million distinct states, 40 s) |
| `lock_liveness` | 4 threads, `lock` and `try_lock`, signals | `SleepersCovered` (which, with `LockWordReflectsOwner`, implies `NoStrandedSleeper`), `LockProgress` | pass (2.2 million states, about 2 min 15 s) |
| `timed_lost_wakeup` | 3 threads, `lock` and `try_lock_for` | `NoStrandedSleeper` | violation: the finding below |

Three threads are the smallest number at which the interesting interleavings
happen: a holder, a sleeper, and a third thread that takes the fast path or
contends while the sleeper is being woken. The state space is finite without
further bounds (the queue holds each thread at most once). `lock_liveness`
uses four threads. Then a releaser, two sleepers and a newcomer taking the
fast path can all be present, which is the situation `SleepersCovered` is
about. With three threads the newcomer can only be the releaser itself.

`LockProgress` is stated for the lock as a whole: the lock is not fair (a
thread on the fast path can take the lock ahead of a woken waiter), so an
individual `lock()` caller can starve, and TLC shows this if the property is
stated per thread.

### Finding

`try_lock_for` loses wake-ups. Trace found by TLC (run `timed_lost_wakeup`):
t2 (`lock`) and t3 (`try_lock_for`) sleep on the WAITING word; the holder
releases and `futex_wake(&val, 1)` wakes t3; t1 takes the fast path
(`compare_exchange(UNLOCKED, LOCKED)`), so t3's `compare_exchange(UNLOCKED,
WAITING)` fails; t3's clock read then fails or reports the deadline passed,
and t3 returns. Nobody re-marks the word WAITING, so t1's drop sees LOCKED and
wakes nobody: t2 sleeps while the lock is free. `lock()` does not have the
problem because it loops and sets WAITING again before sleeping.

## 4. The retry convention

`Retry.tla` models one call of `retry(f)` (`src/util/retry.rs`) and the
`rv!` macro (`src/macros.rs`). `calls` is the sequence of raw words `f`
returned, `result` what `retry` returned (`Pending` while it runs), and
`retryInterrupted` the build-time feature, chosen once in `Init`. `CallF` is
one loop iteration: call `f`, decode, and under the retry policy loop on
EINTR. `ErrnoOf` is `-ret.cast_i64() as c_int`: negation in 64 bits and
truncation to 32, scaled to 6 and 4 bits (`WordBits`, `IntBits`) so that the
truncation happens in states TLC can enumerate.

| Run | Config | Checks | Result |
|---|---|---|---|
| `retry_and_timer` | raw results -7..15 and the largest word, up to 4 calls, both policies; then 2 threads sharing a Timer (clock 0..3, 2 settime calls, 4 Time inputs, one not normalized) | `RetryMatchesSpec`: the calls before the last all reported EINTR (and only under the retry policy), the result is the spec's decoding of the last call; `TTypeOK` (ticks never returns Ok(0)); `TimerRefinement`; `TicksReturns` (a `ticks` call returns unless it blocks on a disarmed blocking timer), under `RTFairSpec` | pass (235 thousand states, about 1 min) |
| `errno_truncation` | every raw word, one call | `ErrnoPositive`: an error code is > 0 (spec.md 3) | violation |

Finding (`errno_truncation`): a raw result of -2^31 or below decodes to a
truncated code; in the scaled model -32 (the i64 minimum) and -16 (a multiple
of 2^IntBits) give `Err(0)`. In the code `-2^32` and `i64::MIN` give
`Errno(0)`, which is neither "success" nor any error constant. The kernel
never returns such values, so system calls are not affected; `retry` is a
public function over any `SignedInt` closure, and the spec promises the
round trip for every negative value.

### The timer

`TimerSpec.tla` is what `Timer` (`src/time/timer.rs`) promises, from its
doc comments and the timerfd contract: a clock, the next expiry `due`, the
`period`, the expirations not yet read, and per thread the method last
called and its answer. Setters re-arm (or refuse an invalid Time with
EINVAL), `status` reports (interval, time left), `ticks` returns the
pending count or, with none, EAGAIN or EINTR.

`TimerFd.tla` translates the code: each setter builds its `itimerspec`
with `time_to_timespec` and calls `timerfd_settime` (flag
`TFD_TIMER_ABSTIME` for `interval_from` and `once_at`); `Status` converts
the `timerfd_gettime` answer with `time_from_timespec`; `CallTicks` and
`ReadTicks` are the 8-byte read through `retry`, so `retryInterrupted` of
`Retry` decides whether a signal re-issues it. The kernel is the
environment: `Elapse` advances the clock, `Expire` counts an expiry and
re-arms one interval later. Times are in clock ticks (`TNanosPerSec` = 2
ticks per second).

`MCRetry.tla` composes the two: one `retry` call runs to completion, then
the timer steps. `TimerRefinement` checks `TimerSpec` under the mapping
`due <- IF armed THEN deadline ELSE Off`, `period <- interval`, answers
converted to ticks. A mutant that passes `interval_from`'s start as a
relative time breaks it.

`TicksReturns` is the liveness side of `ticks`: a thread that called it
eventually returns, unless the descriptor is blocking and the timer is
disarmed (or armed past the modelled clock bound `MaxNow`), where the
kernel's read really blocks for ever. `RTFairSpec` assumes weak fairness of
`Elapse`, `Expire` and each thread's `ReadTicks`: the monotonic clock keeps
advancing, the kernel counts a due expiry, and a runnable thread in
`read` is eventually scheduled. Starting a call and being interrupted are
not fair. A mutant that retries a non-blocking read on EAGAIN in place of
returning it (blocking a poller on a disarmed timer) breaks it.

Two behaviours the doc comments do not mention, both part of `TimerSpec`
because the kernel does them: a zero first expiry disarms (`once_in` with
a zero Time never fires), and a re-arm by another thread discards
expirations a `ticks` caller has not read yet.

## 5. Descriptor ownership

`FdOwnership.tla` models the wrappers of `src/fd.rs` and
`src/time/timer.rs` over the process descriptor table. `fdtab[n]` is the
open file description number `n` refers to (`Closed` if none): 1..3 are the
standard streams, 4..`MaxDesc` timers. `slot[s]` is the wrapper a program
variable `s` holds: its kind (`FdIo`, raw `c_int`, `Timer`), number, `owned`
flag, and an auxiliary field `desc` (the description the number referred to
when an owning wrapper was made). A raw `c_int` obtained from an owning Timer
through `From<Timer>` carries the ownership (`owned`) because the program must
close it itself.

| Action | Code |
|---|---|
| `NewTimer` | the caller's `Timer::from_owned(timerfd_create(..))`: lowest free number |
| `Borrow`, `AsFdio` | `STDIN`/`STDOUT`/`STDERR`, `Timer::from_borrowed`, `as_fdio` |
| `Duplicate` | `duplicate` / `duplicate_min`: `F_DUPFD_CLOEXEC` gives the lowest free number >= min, wrapped with `Self::from_owned` |
| `DuplicateAs` | `duplicate_as`: `dup3` replaces the target; EINVAL when it is the source |
| `Drop` | a wrapper leaves scope; `Timer::drop` closes if owned |
| `IntoRaw` | `From<Timer> for c_int` (`mem::forget`) |
| `CloseRaw`, `FromOwnedRaw` | the program closes a raw number it owns, or wraps it again |

`from_owned` of `FdIo` and `c_int` builds a non-owning value (`is_owned` is
false for both), which `FromOwned` reproduces through `OwningKinds`.
Callers keep the one-owner usage contract of spec.md 2: `duplicate_as` never
targets a number a live wrapper owns. Close-on-exec and description flags
(two `fcntl` pass-throughs) and the timer's own settime/gettime/ticks calls are
not modelled: they change no state that an ownership property reads.

| Run | Config | Checks | Result |
|---|---|---|---|
| `fd_ownership` | 3 program variables (symmetric), numbers 0..4, 2 timer descriptions, `duplicate_min(0)` and `(4)`, duplicates only through Timers | `TypeOK`; `OwnedHandleValid` (an owner still finds its description under its number); `DescriptorsHaveOwner` (every open non-standard number has an owner); `ClosesOnlyOwned` (a close is its owner's release, exactly once) | pass (5.8 million distinct states, under 2 min) |
| `unowned_duplicate_leak` | as above, and `FdIo`/`c_int` call duplicate | `DescriptorsHaveOwner` | violation |

Five numbers leave two beyond the standard streams: one for a timer and one
for its duplicate, so reuse of a closed number, EMFILE and `duplicate_min(4)`
all occur. Three variables let an owner, a borrowed alias of its number and a
duplicate coexist.

Finding (`unowned_duplicate_leak`): `STDIN.duplicate()` returns `FdIo(3)`.
`FdIo` does not own, so descriptor 3 is never closed. spec.md 4.5 says
`duplicate` returns a new owned wrapper.

## 6. Time arithmetic

`TimeArith.tla` translates `src/time.rs` into operators. `Normalize`, the
seven constructors, `AddTime`, `SubTime`, `Cmp` (via `LexCmp`, the tuple
comparison) and `Eq` (the derived field-wise equality) each follow one
function. `Int::div_rem` is Rust's truncating `/` and `%`. The i64 width is a
constant (`Bits` = 6, so -32..31), a second has 8 nanoseconds, and the unit
ratios keep the code's relations (NANOS_PER_MICRO * MICROS_PER_SEC =
NANOS_PER_MILLI * MILLIS_PER_SEC = NANOS_PER_SEC, SECS_PER_HOUR = k *
SECS_PER_MIN, ...). `saturating_add`/`saturating_sub` clamp to that width and
`wrapping_mul` wraps.

A harness checks the operators over all inputs. Each step applies one
operation (`Normalizing`, `Adding`, `Subtracting`, `Comparing`,
`Constructing`) to inputs chosen from every seconds value times nanoseconds
{MIN, -9, -1, 0, 1, 7, 8, 9, MAX}, which lie around the borrow and carry
boundaries and at the ends. `Done` returns to the start. The reference is
`Value(t)` = seconds * 8 + nanoseconds as an unbounded integer.

| Run | Checks | Result |
|---|---|---|
| `time_arith` | `TypeOK`; `NormalizeCorrect`; `ArithmeticSaturates` (no wrap on overflow); `CmpMatchesValue`; `ConstructorsExact` | pass (about 1 million states, 12 s) |
| `time_add_carry` | `ArithmeticExact`: a representable sum or difference is returned exactly | violation |
| `time_ord_eq` | `OrdConsistentWithEq`: `cmp` is Equal exactly when `==` holds | violation |

Findings:
- `Add` saturates the seconds and only then adds the nanosecond carry. For
  example `Time{-1, 500_000_000} + Time{i64::MIN, 500_000_000}` is exactly
  `i64::MIN` seconds, but the code returns `Time{i64::MIN + 1, 0}`. `Sub`
  has the mirror case at `i64::MAX`.
- The derived `Eq` compares raw fields, while `Ord` compares normalized
  values. So `Time{1, 0}` and `Time{0, 1_000_000_000}` compare Equal but are
  `!=`, which breaks Rust's `Ord` contract.

## 7. Byte-stream I/O loops

`IoLoops.tla` models the loops of `src/util/io.rs` one call at a time.
`proc` names the call in progress. Each `...Loop` step is one iteration,
which means one inner `read` or `write` of the device:
- `src` is what the reader still holds, or what is still to be written.
- `sink` is what the buffer, or the writer, has received.
- `orig` is a ghost copy of the input.

There are two kinds of device:
- A *slice* is a `&[u8]` reader or a `&mut [u8]` writer with `room` bytes of
  space. `lmem::copy` moves min(request, available) bytes.
- A *descriptor* is the `FdIo` / `c_int` impls of `fd.rs`, which are
  `retry(read/write)`. A read returns 1..request bytes while data remains,
  0 at end of file, or an error. A write returns 1..request or an error.
  EINTR never reaches the loops, because `retry` absorbs it (section 4).

`Finish` returns to idle, so every call ends and deadlock is checked. The
inputs are every byte string over {0, 1} of length up to 4, every buffer or
slice length up to 4, and at most two scatter buffers or gather pieces of up
to 2 bytes. Length 4 gives the stop byte of `copy_until` room to sit at
every position, and gives reads and writes room to be split several ways.

These properties are checked in the `byte_layer` run of `MCBytes` (section 8).

The properties say four things:
- The bytes received and the bytes left always make up the input, so none is
  lost or repeated across partial transfers.
- `read_all` returns Ok only with the buffer full or the stream ended. A
  short descriptor read must not end it.
- `write_all` returns Ok only with everything written, and DeviceFull only
  when a slice writer is full.
- `copy_until` stops after the stop byte unless the writer fills up.
  `scatter_read` fills each buffer before using the next.

`write_fmt_linux` is modelled by `StartWriteFmt` and `WriteFmtLoop`.
`fmt::write` hands the Adaptor the formatted text as a sequence of pieces
(`parts`), and the Adaptor `write_all`s each piece (`src` is the piece in
progress). Three things end the call:
- A device error is saved in `error` and returned.
- An argument's own formatting impl fails between pieces, which gives
  `Err(NoError)`. The model chooses this nondeterministically.
- All pieces are written, which gives `Ok(())`.

`WriteFmtCorrect` checks that the written bytes, the piece in progress and
the pieces left always make up the whole text. It also checks that `Ok(())`
means every byte reached the writer.

An error from a descriptor ends `read_all`, `write_all` and `copy_until`
with the count lost. The code's documentation says so, and the model keeps
that behaviour.

## 8. String utilities and the byte-layer run

`ByteStrings.tla` translates these helpers of `src/string` into operators:
- `longest_sequence` is `Scan`. Its loop is a RECURSIVE operator, the
  `UTF8_CHAR_LEN` table becomes `Utf8CharLen`, and the `match` arms become
  `Accepted`. The two-byte check `(!b).leading_zeros() == 1` is translated
  literally.
- `strlen` is `Strlen`, and `ByteStr::trim` is `Trim` and `TrimEnd`.
- `NoNullStr::split_path` is `SplitPath`, built on memrchr.
- The CStr views are `FromPtr`, `BytesWithNull` and `CStrFile`.

A slice is represented as offsets `<<lo, hi>>` into the buffer. The code
transmutes sub-slices into `&str` and `CStr`, so the properties can then ask
what lies in memory right after a slice. A harness applies one operation to
every input and returns with `StrReturn`.

The inputs are byte strings of up to 4 bytes. They are drawn from a few
representatives of each byte class the code or Unicode tells apart:
- ASCII, and the edges of the continuation sub-ranges 80..8F, 90..9F and A0..BF.
- The invalid leads C0 and F5.
- The lead bytes C2, E0, E1, ED, EE, F0, F1 and F4.
- For trim and split_path: blanks, '/' and 'A'. For C strings: 0, '/' and 'A'.

The reference for UTF-8 is Unicode's table of well-formed byte sequences
(`Utf8Rows`), applied one character at a time (`ValidUtf8`).

`LMem.tla` models the address arithmetic of `src/lmem.rs`:
- `AlignFor` translates `align_for` and `align_for_mut` (and
  `DataSlice::align_for`, which forwards to them). It computes
  `((!addr & mask) + 1) & mask` with `Bitwise` on an `AddrBits`-wide usize.
- `IsSuitableFor` and `FromBytes` translate `is_suitable_for` and
  `from_bytes` / `from_mut_bytes`.
- `AlignFromBytesCall` is the way the two are used together:
  `from_bytes::<T>` applied to the view `align_for::<T>` returns
  (`AlignedViews`). The `&[]` that `align_for` returns when no aligned
  element is left is a promoted empty array, whose address the code does
  not fix, so an empty view may lie at any address. `AlignedFromBytes`
  compares the result with an independent definition: the least gap to an
  aligned address. It leaves zero-sized types out, because they occupy
  no bytes.
- Buffers are every (address, length) pair with a length of at most
  `MaxBuf` that fits in a 4-bit address space. The alignments are 1, 2, 4
  and 8, and the sizes are 0, 1, 4 and 8. Together these cover an already
  aligned address, a gap longer than the buffer, and a buffer exactly the
  size of T.

`PodDerive.tla` models the POD capability:
- `HasImpl` is the impl list of `util/pod.rs`: integers, pointers and
  `[T; 0..=32]` with `T: Pod`. `Asserts` is `get_asserts` of the derive
  macro: it asserts the fields of a struct or union, asserts nothing for a
  unit struct, and refuses an enum.
- A program declares two types, where S2 may use S1. The fields are drawn
  from u8, bool (which is Copy but not Pod), a pointer, arrays of u8 and of
  bool with lengths 1, 32 and 33, and S1. `Compile` records whether the
  crate builds.
- `PodDeriveSound` checks that whenever the crate builds, every derived type
  is POD by the recursive definition of spec.md 4.3.
- The converse fails by design of the impl list: `[u8; 33]` is POD but has
  no impl. This is recorded as a hazard rather than as a run.
- `KtyDerivesBuild` (in `MCBytes`) applies `Builds` to the real
  declarations of `kty/gen.rs`, translated to Rust types: every
  `#[derive(Pod)]` struct there must compile, so no field may be an array
  past the impl list. `siginfo_t`'s `[c_int; 128/4]` sits exactly at the
  limit of 32; a mutant that stops the impl list at 31 breaks it.

`KtyAbi.tla` models the two parts of `src/kty/gen.rs` that compute
something rather than list it:
- The ioctl encoding. `IOC` is `_IOC`, and `IOC_DIR` .. `IOC_SIZE` are the
  decoders. `IOR` and `IOW` are `_IOR::<T>` and `_IOW::<T>`, and
  `IoctlCmds` holds TCGETS2 .. TIOCGEXCL as gen.rs builds them. TLC's
  integers stop at 2^31, so a c_uint is kept as two 16-bit halves.
- The `#[repr(C)]` layout of `siginfo_t` and of every other struct gen.rs
  declares: `termios2`, `ktermios`, `termios`, `termio`, `winsize`,
  `sigset_t`, `__kernel_fsid_t`, `statfs`, `epoll_event`, `f_owner_ex`,
  `ipc64_perm` (with its `[c_uchar; 4 - BYTES_PER_KERNEL_MODE_T]` pad),
  `pollfd`, `shminfo64`, `sigaltstack`, `sigaction`, `stat` and `stat64`.
  `KDecls` transcribes the declarations and their type aliases. `SizeOf`, `AlignOf` and `OffsetsFrom`
  are the C layout rules, and `SiAccessors` gives the field path behind each
  `si_*` accessor of `si_define_outer!` and `si_define_inner!`.
- The references are the kernel's own x86_64 numbers: the command values
  (TCGETS2 = 0x802C542A, and so on), the offset and width of every
  siginfo field, and the struct sizes. `epoll_event`, `stat` and `stat64`
  are declared in gen.rs in their asm-generic form (its comment says
  epoll_event is "for all platforms except x86_64"). They are compared with
  the asm-generic sizes on a 64-bit architecture: 16, 128 and 104 bytes.
  x86_64's own `stat` (144 bytes) and packed `epoll_event` (12 bytes) would
  come from the arch module of `kty`, which is not in the repository.
  gen.rs's header says its types may be overridden there, so which layout
  `fstatat` and the epoll calls use on x86_64 cannot be checked here.
- `IocRoundTrip` checks that every direction, type, number and size inside
  its field decodes back. `IoctlCmdsMatchKernel` and `LayoutMatchesKernel`
  check that the code reproduces the kernel's numbers, the offset and width
  of every siginfo field, and the size of every struct above.
- `__ARCH_SI_PREAMBLE_SIZE` is 3 ints where the 64-bit kernel uses 4. The
  constant is unused, and the layout is still right because the union is
  8-byte aligned. This is recorded as a hazard.

`SyscallAbi.tla` models the inline assembly of
`src/syscall/raw/x86_64.rs`: `SyscallAsm` lists, for `syscall0`..`syscall6`,
the input registers, the output and the clobbers. `SysCall` loads the
operands, lets the kernel read rax and rdi, rsi, rdx, r10, r8, r9, and
records the register file after the trap (rax the result, rcx and r11
overwritten by the instruction). `ArgsReachKernel` checks the kernel sees
the number and exactly the K arguments in order; `PreservedAsDeclared`
checks every register not declared clobbered survives, which is what the
compiler assumes.

The wrappers at the end of `x86_64.rs` are modelled as well. Seven stand in
for a kernel entry point of another name: `pread` calls `pread64`,
`sendfile` calls `sendfile64`, `uname` calls `newuname`, and so on. Four
(`iopl`, `mmap`, `clone`, `arch_prctl`) trap a number with `call!`.
`Wrappers` records the entry point each one calls and which of its
parameters goes in which position. `WrapperCall` sends them through the
same `syscallK` as `SysCall`. For a wrapper, `ArgsReachKernel` also checks
that the entry point is a function of the x86_64 system-call table
(`X86Entries`), called with its own number of parameters, and that its
i-th parameter receives the wrapper's i-th. A mutant that gives `clone`
the CLONE_BACKWARDS order (tls before child_tidptr), which other
architectures use, breaks it.

`MCBytes.tla` composes `IoLoops`, `ByteStrings`, `LMem`, `PodDerive`,
`KtyAbi` and `SyscallAbi` the way one caller uses the layer, one call at a time. Each
component steps only while all the others are idle.

| Run | Checks | Result |
|---|---|---|
| `byte_layer` | the six I/O properties of section 7 (with `WriteFmtCorrect`); `StrTypeOK` (every result slice is in bounds, so no panic); `Utf8Sound` (the prefix transmuted to `&str` is valid UTF-8); `TrimCorrect`; `SplitPathCorrect`; `CStrViewsTerminated` (from_ptr's view and the file part of `CStr::split_path` both have exactly one 0, at the end); `MTypeOK` (align_for's result is a slice of the buffer, so `&buf[diff..]` never panics); `AlignForCorrect` (the result starts at the first aligned address, and is empty only when none is left); `AlignedFromBytes` (`from_bytes::<T>(align_for::<T>(buf))` yields a T exactly when the buffer holds an aligned T, and then at the first aligned address); `PodDeriveSound`; `KTypeOK`, `IocRoundTrip`, `IoctlCmdsMatchKernel`, `LayoutMatchesKernel`, `KtyDerivesBuild`; `ArgsReachKernel` (also through the 12 x86_64 wrappers), `PreservedAsDeclared` | pass (207 thousand states, 10 s) |
| `utf8_private_use` | `LongestSequenceMaximal`: the result is the longest valid prefix, as documented | violation |

Finding: the three-byte `match` has no arm for the lead bytes EE and EF.
Valid characters U+E000..U+FFFF therefore end the scan. For example, the
bytes EE 80 80 give 0. Safety is unaffected, because the prefix returned is
still valid, but `Debug for ByteStr` escapes these characters byte by byte.

## 9. Not modelled, and why

- The per-call wrappers of the `common` module that `x86_64.rs`
  re-exports: that module, `call!` and the arch module of `kty` are not in
  the repository. The effect of a call is the kernel's, and it is modelled
  where a consumer depends on it (timer, fd, futex).
- The rest of the kernel ABI tables (`kty/gen.rs`): constants, and struct
  declarations other than those listed in section 8. They are data with
  nothing to compute.
- `parse.rs`: the `Parsable` trait has no implementor in the repository,
  so integer parsing and overflow are not code of this crate. The only
  logic is `parse_bytes`'s check that the whole input was consumed, a
  single comparison.
- Close-on-exec and the description flags of `fd.rs`: each is one `fcntl`
  call with its `rv!` decoding (modelled in `Retry`). Adding the per-number
  flag to `FdOwnership` would multiply its 5.8 million states while no
  ownership property reads it. The d8 slice writer of `io.rs` is the u8
  slice writer's code over another element type. Padding bytes of Pod structs are not modelled:
  `as_data` returns `d8`, the crate's type for bytes that may be undefined.
- `zeroed`, `as_data`, `copy_as`, `swap`, `as_slice` and `addr` of
  `lmem.rs`: single unsafe reads and writes with no logic of their own.
  `copy` appears as the minimum count inside `IoLoops`.
- Formatting (`Debug` impls; `write_fmt_linux`'s write loop is modelled, the `fmt` machinery is not), the test binary, crate wiring.
- The `PartialEq`/`Ord` impls of `string/cmp.rs`: they compare the
  `AsRef` views with slice `==` and `cmp`, and those `AsRef` impls live in
  `string/conv.rs`, which `string.rs` declares but the repository lacks; `Debug for ByteStr` (formatting), `NoNullStr::set` (one
  assert).
- `BufWrite` (`read_to_eof`, `read`): a trait with declarations only and no
  implementation in the repository. The `&mut T` forwarding impls of
  `io.rs`: plain delegation with no loop of their own.
- `time_from_timespec` / `time_to_timespec`: field copies on x86_64
  (`time_t` and `k_long` are i64); `Debug for Time` is formatting.
- `Lock::unlock` (unsafe, releases without a guard): it runs the same drop
  as a guard. `Lock::status` is modelled (`StatusOf`). Its Waiting answer
  may be given with nobody waiting (the contended mark is kept on
  acquisition, by design), and no property claims otherwise.
