# Decept: a verification development

Decept is a cryptography library for the i.MX RT1060 (Teensy 4). It drives the
chip's data coprocessor (DCP) and true random number generator (TRNG) from a
bare-metal program: a main loop and interrupt handlers that may preempt it
between any two instructions outside an atomic block. There is no scheduler;
every public function is a blocking call that spins until the hardware is done.

These modules model the library's control: who submits what to the hardware,
in which order, what is read back, and what is kept between calls. Data is
abstract: a message byte is its position in the message, a digest is the
message and the length it is of, a cipher block is the key, IV, source and
direction it was made from.

## The system: components, state, operations

| Component | State | Operations | Correct if |
|---|---|---|---|
| DCP driver (`dcp/`) | none of its own; clock gate, channel registers | `init`, `deinit`, `scheduleWork`, `isChannelComplete`, `waitForChannelComplete` | a running packet is neither replaced nor outlived by its call; the answer is about the caller's job; calls return |
| DCP coprocessor (external) | 4 channels: command pointer, semaphore, status; context switching buffer; key RAM | runs the packet a channel points to | assumed: a job ends; a failed one shows an error code or an undecremented semaphore |
| `Hash` (`Hash.*`) | block buffer, running hash, total size, started, work scheduled, channel | `init`, `setChannel`, `update`, `finalize` | the output is the digest of exactly the accepted bytes, for every chunking and interleaving of objects |
| `Cipher` (`Cipher.*`) | key slot, key data and IV, work scheduled, channel | `init`, `setKey`, `encrypt/decrypt ECB/CBC` | true means that this call's operation is in the destination |
| `HMAC` (`hmac/HMAC.*`) | a hash, saved inner and outer contexts | `initKey`, `init`, `setChannel`, `update`, `finalize`, `calculate` | HMAC of the message, each hash on a channel chosen for key or message; key reusable |
| `HKDF`, `TOTP` (`hmac/`) | pseudo-random key; HMAC and parameters | `extract`, `expand`; `calculate` | equal to RFC 5869 and RFC 6238 |
| `HashDRBG`, `HMACDRBG` (`drbg/`) | V, C or key, reseed counter, initialized | `init`, `reseed`, `generate` | state advances as SP 800-90A says, also after a failed step |
| Entropy (`entropy/entropy.*`) | pool and its fill level; TRNG registers | `trng_init`, `trng_deinit`, `trng_data`, `entropy_random`, range | no byte is given out twice; every value of a range equally likely |
| `RandomDevice` | once-only flag | call operator | the TRNG is on when it is used |
| Keys (`keys/`) | SNVS registers | `setSNVSZeroizableMasterKey`, select | no half-programmed key is marked valid |
| Data cache (`util/dcache.h`) | cache lines | flush, delete | the coprocessor reads what the program wrote and the reverse |
| Codecs (`util/codecs.*`) | none | base32 encode, decode | inverse of one another |
| Register headers (`hardware/`) | none | field assignment as read-modify-write | fields of a register written by others are kept |

How they interact: `HMAC` calls `Hash`; `HKDF`, `TOTP` and `HMACDRBG` call
`HMAC`; `HashDRBG` calls `Hash`; `Hash` and `Cipher` build a work packet in
their own context, flush the cache and submit it to a DCP channel;
`RandomDevice` calls the TRNG. Shared state between contexts of the program:
the DCP's channels, one context switching buffer with a part for each channel,
one key RAM with one index register, the entropy pool.

What is hard here: preemption inside a call, the coprocessor reading memory by
DMA while the program runs, state that is saved and restored around jobs,
jobs that fail, flags that survive a failed call, counters at their width.
`PROJECT.json` lists each hazard with its line and the properties about it.

## Modules

| Module | What it is |
|---|---|
| `Dcp` | the driver, its callers' position in a call, and the coprocessor |
| `DcpProofs` | theorems about `Dcp` |
| `HashSpec` | what `Hash` promises: one step per call |
| `Hash` | `Hash` on `Dcp` |
| `HashProofs` | theorems about `Hash`, with those of `Dcp` |
| `Cipher` | `Cipher` on `Dcp` |
| `CipherProofs` | theorems about `Cipher`, with those of `Dcp` |
| `Trng` | the entropy pool and `random_device`, with the TRNG running beside them |
| `TrngProofs` | theorems about `Trng` |
| `RandomRange` | `entropy_random_range()` |
| `MacSpec` | what `HMAC` promises: one step per call |
| `Hmac` | `HMAC` on three hash objects |
| `Hkdf`, `Totp`, `HmacDrbg` | the callers of `HMAC`, each on what `MacSpec` promises |
| `MacProofs` | theorems about `Hmac`, `Hkdf`, `Totp` and `HmacDrbg` |
| `HashDrbg`, `AddTo` | `HashDRBG` on a hash, and the addition it is built on |
| `DrbgProofs` | theorems about `HashDrbg` |
| `Base32` | `encodeBase32()` and `decodeBase32()`, bit by bit |
| `Registers` | assignments to bit fields (`regs.h`), with the masks of the register headers |
| `SnvsKeys` | setting and selecting the zeroizable master key, with resets in between |
| `DataCache` | the maintenance of the cache around a job, with a cache that loads and evicts on its own |
| `PlatformProofs` | theorems about `SnvsKeys`, `DataCache` and `Registers` |
| `ArithmeticProofs` | theorems about `RandomRange`, `AddTo` and `Base32` |
| `MCDcp`, `MCHash`, `MCHashTasks`, `MCCipher`, `MCParts` | instances for TLC: tasks, owners, channels, texts, jobs, and the sum of the parts |

### Dcp

A *task* is an execution context: the main loop, an interrupt handler, a
thread. Steps of tasks interleave freely, which includes every nesting of
interrupt handlers. Each task makes one call at a time; `pc[t]` says where it
is: `check` (the busy test before the atomic block of `scheduleWork`), `start`
(before the atomic block), `poll` (the channel's STAT bit), `status`
(semaphore and error code), `clear`, and the two answers `complete` and
`notScheduled`. Everything inside the atomic block is one step, since no
handler runs there and the coprocessor does nothing on an idle channel. The
spin loops are the absence of a step: `ScheduleWorkCheck` and `Poll` wait.
`waitForChannelComplete` takes the same steps as a loop over
`isChannelComplete`.

`busy`, `cmd`, `sema`, `err` are the registers of a channel. `cmd` names the
task, because the packet lives in the context of the object the task works on.
`outcome` is a history variable: how the hardware ended the job of the call.
The coprocessor's actions are `HwDone` and `HwError`. A failed job sets an error
code, or leaves the semaphore undecremented, or both; these are the two signs
the driver looks for.

`ClearsErrorCode` states an unknown of the hardware: the driver writes 0xFF to
CHnSTAT_CLR, which covers the error flags but not the bits of the error code
(`DCP.h:470`). Whether the code goes with the flags decides only whether a failure
is blamed on a later call (`FailureIsOwn`), never whether a failure is missed
(`Truthful`).

`Owners` are the tasks whose channels no other task uses, which is how a program has
to assign channels. `NoReturnWhileRunning` and `NoClobber` hold for all tasks; `Truthful`,
`FailureIsOwn` and `EveryCallReturns` speak of owners, because `isChannelComplete` reads the
status of the channel and takes the job on it for the caller's.

`init` and `deinit` are called with no call in progress, and nothing is
submitted with the clock off: accessing the registers would be a bus fault.

### HashSpec and Hash

`Hash` keeps the phases of `update()` as actions: `UpdateBegin` (restore),
`FillPartial` / `FillBlock` / `FillNothing` (the partial block), `Bulk`
(all whole blocks in one job), `Tail` (keep the rest, save the running hash),
`BlockDone`, `BulkDone`, `UpdateFail` (the answers of the driver). `finalize()`
is `FinalizeNothing` (no output asked for), `FinalizeEmpty` (the constant of
the empty message), `FinalizeCrc` (no job for CRC32 without a partial block),
`FinalizeBegin`, `FinalizeDone`, `FinalizeFail`. An `update()` of no bytes
returns at once and changes nothing. Between two actions of a call the driver's
steps happen (`Drive`), and other tasks run.

`context[c]` is what the coprocessor keeps for channel c in the context
switching buffer, which every object on the channel overwrites; `runningHash`
is an object's own copy. `Hashed` is the coprocessor: it goes on from
`context[c]`, or anew if HASH_INIT is set; bytes that are not the next ones of
the same message, or a partial block that is not the last, give `Garbage`.
A failed job leaves `Garbage` in the channel's context. `totalSize` wraps at
`SizeMod` (2^32 on the target). The runs keep messages shorter than that: at a multiple of
`SizeMod` bytes `finalize()` finds `totalSize == 0` and stores the digest of the empty
message (Hash.cpp:144); TLC shows it if `MCHashTasks.cfg` is given a
`SizeMod` of 2. An object is not used after a call that
returned false until `init()`, as `Hash.h` asks.

`HashSpec` has no blocks, jobs or channels: a call accepts bytes, writes the
digest or ends the calculation. `ImplementsHashSpec` is the refinement, with
`open`, `session`, `sent`, `out` as they are; a call counts when it returns.

### Cipher

`SetKeyIndex`, `SetKeyWord`, `SetKeyEnd` are the write of a key to the key RAM,
one word a step, through the one KEY register. `Crypt` copies the IV, builds the
packet and submits it, unless `workScheduled` is still set, when the code goes
straight to the poll. The key that a job uses is looked up when the
coprocessor runs it (`KeyUsed`). ECB and CBC calls whose size is zero or no
multiple of the block size return false and change nothing, and so does CBC
without an IV. A reset of the DCP is taken to lose the key RAM.
`CipherInit` keeps key slot, key data and IV, as `init()` restores the whole `keyData` array: the IV of
an earlier CBC call is there afterwards, and `CryptCorrect` says that no later call uses it.
`RestartAfterFailure` says whether the program calls `init()` after a `crypt()`
that returned false. Where it does not, see the finding `cipher_retry`.

Objects with key RAM slots belong to one task in the runs. With two tasks that
both write keys, TLC finds within seconds a key written partly to the other's
slot: `setKey()` is not safe against a handler that also calls it.

### Trng and RandomRange

`Trng` has the module's clock and the bits of MCTL (`prgm`, `err`, `entVal`,
`stopped`), the generation of entropy in the ENT registers, and the pool. A byte
is its generation and place. Reading the last register clears ENT_VAL, and the TRNG
goes on by itself, to valid entropy or an error (`HwValid`, `HwError`), at any time
of a call or between calls. `DataBegin`, `DataFill`, `DataCopy`, `DataFail`, `DataEnd` are
the steps of `trng_data()`; the wait in `fillEntropy()` is the absence of a step.
`DeepSleep` sets the error bit between two calls, as the comment in `trng_data()`
describes; ENT_VAL may or may not survive it. `AsksAfterSleep` says whether the program
may call `trng_available()` between a deep sleep and the next `trng_data()`.
One context draws entropy: nothing in the code says that a handler may. What is
reported to the caller is `out`; `given` remembers everything earlier calls wrote.
The registers are not accessed with the clock off.
`ensureInitialized()` remembers that it ran, so a `random_device` made after
`trng_deinit()` leaves the module off, and the model's program does not draw from it.

`RandomRange` multiplies words of `WordSize` values; a draw may fail each time.
`Unbiased` counts, for the range of each call, the words accepted for every value.

### MacSpec, Hmac, Hkdf, Totp

`Hmac` has the members of the class: the running hash, the inner and the outer
context. A hash object is what `HashSpec` promises of it, the pieces it has digested,
with the channel it sends jobs to; a digest is the term `<<"H", pieces>>`. Each call
of the class is one action, made of hash calls in the order of the code; `left` is how
many of them succeed before one fails, and every value of it is tried. A failed hash
call clears its object, with the channel, as `Hash.h` asks; the HMAC call ends there
and the other objects stay as the earlier steps made them. `ImplementsMacSpec` is the
refinement: the key is read off the two contexts (`KeyHeld`), the message is what the
running hash holds after the padded key. A copy of a context takes the channel with it, so that
`finalize()` runs the outer hash on `initKey()`'s channel: see the finding `hmac_channel`
(`JobsOnMessageChannel`). Digests do not depend on it, and the theorem `HmacKeepsChannels` says what holds:
no job is sent to a channel that was chosen neither for the key nor for the message.

`Hkdf` takes a step per block of `expand()`. An authenticator is the term of its key
and message, the counter is taken modulo `CounterMod` (2^8). `HkdfOutput` compares with
RFC 5869's T(i), with the IV, the library's addition, as T(0). A key shorter than the hash and
an output that is too long are refused.

`Totp` has two objects with one key, `temp_` with arbitrary contents, and a table of digests drawn
at the start: any function of the time step. Words are built of bytes of `ByteBase`
values and the top bit is dropped. A digest may be of any size that fits `temp_`: it takes the first bytes
and leaves the others (`Leftover`). The constructor accepts CRC32, whose output has four bytes, and then the offset
may point past the digest, to bytes that an earlier calculation or nobody wrote. `TotpAgree` speaks of that case
too: the codes agree if the digest holds all that is read (`WithinDigest`), as SHA-1 and SHA-256 always
do, and otherwise for objects whose memory held the same there.

### HashDrbg, AddTo, HmacDrbg

`HashDrbg` keeps V as the terms that were added to it: seed, digests, how often C was added,
sum of counters. `f` is how many blocks of a call succeed before a hash fails.
A failed seeding leaves what was written: a V of the new seed with the C of the
old, or a `Torn` value. `HashDrbgState` is the state of SP 800-90A, claimed while
`whole`, that is unless a seeding has failed since the last one that succeeded; a draw
that fails leaves it true. `HashDrbgBlocksFresh` is claimed always, since calls with a torn
state still succeed. Each entropy input is new (`Entropy`); that `hash_df()` and the hash
have no collisions is the meaning of terms. `AddTo` is the addition itself, digit by digit.

`HmacDrbg` numbers the authenticators that were computed (`macs`), so that two are equal
exactly if key and message are. `HmacDrbgAsStandard` compares with HMAC_DRBG of SP 800-90A computed beside it.
`BrokenKey` is what a failing `initKey()` leaves in the HMAC; it is also the key at first, which is what
`MacSpec` leaves open, and nothing is assumed of authenticators under it.
`RestartAfterFailure` says whether the program calls `init()` after a
call that returned false.

### Base32, Registers, SnvsKeys, DataCache

In `Base32` and `Registers` a byte, a character or a register is the set of its bits, so that
shifts and masks are operations on sets. `Shifts` holds the shifts of each length of group.
What is encoded or decoded is given place by place: `GroupOf` is the group that the loop is at
when it writes a place.

A register of `Registers` is given by its fields, the mask and the bits to set of each
(`AssignMask`, `AssignSet`), and by what its bits do: kept, cleared by a 1 (`w1c`),
a command (`wo`), to be written as 1 (`one`), or a key without which the hardware ignores the write.
The properties compare the masks with the kinds. An assignment is a read
and a write; the hardware may raise a flag in between, and commands and key fields may read as
anything (`Unkept`), so it is the masks and not the reads that keep commands from being repeated. In AIRCR,
VECTKEY can be assigned without the other fields; PRIGROUP without the key (SCB.h:162) is read only: its member is
made const by `constify()`, and `operator=` exists for writable members only (regs.h:193).
HP_TS is a plain field, as its mask in the header is. Flags and plain fields together,
as in MCTL, HPCOMR or AIRCR, are why masks differ from fields. Registers of one kind of
field with nothing special are represented by a few.

`SnvsKeys` has one action per register write. The low-power domain (the words, ZMK_VAL,
ZMK_ECC_EN, the selection) survives `Reset`, the other registers do not. The hardware
computes the ECC value of the words when ECC is turned on, and a mismatch clears the key:
that is assumed from the names and comments of the flags in `SNVS.h`. A reset between the last
two writes leaves a valid whole key without ECC, which `ZmkWhole` allows.

`DataCache` has memory, the cached copy and the dirty lines. `LoadLine`, `EvictLine` and
`CpuWrite` happen at any moment, `CpuWrite` to the job's buffers only between jobs.
Buffers may start and end anywhere in a line. Between the flush of a destination's line and its deletion
the line is `InFlight`: a write to a neighbour in it is discarded with the line, or written back over what the coprocessor wrote.
`risked` remembers these writes, and `JobDataCoherent` says that nothing else is lost. The library
does have such a destination: `Hash` flushes and deletes `runningHash` within its own context (Hash.cpp:217, 235, 238),
which shares its two lines with the end of `block`, `currBlockSize`, `totalSize` and `control1`. None of these is written between
flush and deletion, which is `JobDataStable`; the work packet after them is aligned to a line, so `workScheduled` is not
among them. A caller's output buffer for `Cipher` has no such guard, and
the repository's README lists "Explore cache alignment for all the structures and parts" as work to do.

### MCParts

The parts above call each other only through what `MacSpec` or `HashSpec` promise, and have no
state in common. `MCParts` therefore is their sum: a behaviour picks one part
and runs it. Its states are the sum of the parts' states, never the product.
Several parts stop at a bound (`MaxCalls`, `MaxDraws`, `MaxAssignments`), so the run
does not check for deadlock.

## Runs

| Run | Instance | Shows |
|---|---|---|
| `dcp_own` | 3 tasks: one with its own channel, two that share the other | `TypeOK`, `Truthful`, `FailureIsOwn`, `EveryCallReturns` |
| `hash_chunks` | 1 object, blocks of 3, message up to 10, up to 8 a call | `HTypeOK`, `ImplementsHashSpec`, `FollowsDriver`, `HashCallReturns` |
| `hash_tasks` | 3 tasks: one with a SHA and a CRC32 object and 2 channels, two with an object each and one channel; blocks of 2, messages up to 4 | `DigestCorrect`, `ContextHoldsMessage`, `NoReturnWhileRunning`, `NoClobber`, `JobDataStable` |
| `cipher_sources` | 1 object; key RAM, fuses, payload; ECB, CBC | `CTypeOK`, `CryptCorrect`, `FollowsDriver`, `CipherCallReturns` |
| `cipher_preempt` | 2 tasks, one channel; one task writes 2 keys to the key RAM | `KeySlotWhole`, `CryptDataStable` |
| `trng_pool` | pool of 3, requests up to 4, 5 calls, 2 sleeps | `TypeOK`, `NoByteTwice`, `ShortMeansFailed`, `FreshAfterSleep`, `StoppedBeforeOff`, `DataReturns` |
| `parts` | the sum of eleven parts | `HmacHoldsKey`, `ImplementsMacSpec`, `HkdfOutput`, `TotpAgree`, `HashDrbgState`, `HashDrbgBlocksFresh`, `AddToAdds`, `HmacDrbgAsStandard`, `RangeAnswer`, `Unbiased`, `Base32RoundTrip`, `OnlyThatField`, `ZmkWhole`, `JobDataCoherent` |
| `hmac_channel` | `Hmac`, 2 keys, 2 channels | violation: the outer hash runs on the key's channel |
| `trng_available` | 3 calls | violation: promised bytes are thrown away |
| `trng_sleep` | `AsksAfterSleep` TRUE | violation: bits of before the sleep |
| `cipher_retry` | `RestartAfterFailure` FALSE | violation: `crypt()` returns true and has run no job |
| `drbg_reinit` | `HmacDrbg`, `RestartAfterFailure` FALSE | violation: output that depends on no entropy |

The bounds. Two tasks and one channel give every overlap of the driver's
steps, since a step involves a task and a channel, or two tasks on a channel.
`MaxMessage` 10 with blocks of 3 has a partial block, its completion, two
whole blocks in one job and a rest, all in one call after another; blocks of 2
and 3 bytes suffice because `update()` only compares and divides by the block
size. `MaxSema` bounds how often a failed job leaves its count behind: one
poisoned channel behaves like any other. Two sessions tell an object's
message from its last one. `KeyWords` 2 instead of 4 has a first and a last
word. `KeyWords`, `BlockSize` and the channels are parameters.

`hash_tasks` has everything that objects and tasks do to each other, with messages of up to two blocks. Its CONSTRAINT
has two bounds. As the main loop's channels are its own, no step of a handler has to do with its objects; a behaviour is
therefore one of the main loop or one of the two handlers (`EitherCalls`), which share a channel and preempt each other at
any step. And of the objects only `sha` starts a second message (`OneMessage`). The handlers with their
objects are interchangeable, and so are the main loop's channels (`Alike`); a zeroed context names the handlers' channel.

A pool of 3 with requests of 0 to 4 has a request within the pool, one that empties
it exactly and one that needs a second fill; five calls are an initialization, a
call that leaves a rest, and three more around two sleeps. `trng_pool` assumes that
the TRNG goes on while its clock runs and that the program does when it is not
waiting.

In `parts`, the HMAC has a long and a short key, an empty and a non-empty piece, messages of up to
two pieces, and a failure at each of its hash calls. `CounterMod` 5 with blocks of 2 has every output size
from nothing to the largest and the first one refused. TOTP has both offsets of a two-byte
window in digests of three bytes and of one, which the window leaves, bytes of `temp_` beyond them, and times from
before the epoch to the next step. Two seedings and three draws per `HashDRBG` are a reseed between draws, or a
second `init()`, and the reseed that becomes due after `MaxCounter` 2; a seed of two
blocks can be torn. `AddTo` adds every number of up to four digits to every sum of three. Four
calls of `HMACDRBG` are an `init()`, a draw, a reseed and a draw, in any order. `Base32` decodes every last group and padding,
alone, after and before another group, and encodes every bit of up to eleven bytes: two groups and a byte.
Two assignments per register, each of all ones, all zeros or the key's bits to every field, from cleared and set registers.
`SnvsKeys` has the four-word halves shortened to two words each. Two lines of two bytes are buffers of a line, parts of one or of two lines, with the source
beside them (as `Hash` has its block and running hash), the same buffer as both, and neighbours.

`hash_chunks`, `cipher_sources` and `dcp_own` assume weak fairness of each task's
steps (a handler returns, so what it preempted goes on) and of each channel of
the coprocessor (a started job ends). With channels shared between tasks calls
need not return under this fairness: a task may always find the channel taken.

## Findings

- `cipher_retry`: `Cipher::tryCrypt()` leaves `workScheduled` set when a job
  failed. The next `crypt()` submits nothing, finds the channel idle and
  without error, and returns true with the destination untouched.

- `hmac_channel`: `HMAC::finalize()` copies the outer context over the running hash, with the channel `initKey()`
  was given, and so runs the outer hash there, whatever `init()` or `setChannel()`, "Sets the calculation
  channel." (HMAC.h:81), had chosen. The code has a TODO at the line (HMAC.cpp:102).
- `trng_available`: the TRNG works on the next generation as soon as the pool is
  filled. If that fails before the program draws, `trng_data()` clears the error and
  the pool, and waits for what `trng_available()` promised without waiting.
- `trng_sleep`: `fillEntropyBuf()`, called by `trng_available()`, clears the error of a
  deep sleep without the restart that `trng_data()` does "to be sure there's fresh bits".
- `drbg_reinit`: `HMACDRBG::init()` starts with `key_` and `v_` set to constants and leaves
  `initialized_` true when it fails on an object that was initialized before. The next
  `generate()` returns true with output that depends on no entropy, while the header says that it returns
  false if the DRBG was not initialized.

Smaller differences between comments and code, met while reading and without a run:

- `HMACDRBG.h:64-65` says that `update()` first initializes the HMAC object with the current
  key. It does not: the object holds that key already, which `HmacDrbgAsStandard` confirms as
  long as no call has failed.
- `HashDRBG.h:29` and `HMACDRBG.h:31` list an entropy size that is too small as a
  reason to return false. The size is never compared with a minimum.
- `TOTP::calculate()` divides towards zero, so that a time just before the epoch has the code of step 0.

## Proofs

### Dcp and Trng

`DcpProofs` proves, for any sets of tasks and channels and any bound:

- `TypeCorrect`, `PacketOutlivesJob`, `RunningChannelUntouched`, with no
  assumption about who uses which channel. The inductive invariant `Owned` adds
  to the two properties that a running channel's semaphore is not zero: without
  it the type of the semaphore is not inductive, as the coprocessor decrements it.
- `CompletionIsTruthful`. `Truthful` speaks of the moment
  a call returns; `Own` follows the job back: at the poll the channel runs it or
  it has an outcome, and an error outcome shows in the channel's registers
  until the call has read them. `OneTaskPerChannel` is why no other task
  clears them or counts them down.
- `FailureIsTruthful` under `ClearsErrorCode`. `Blame` says
  that an error code belongs to a call that is still going to clear it, so a
  new job starts on a channel without one.

`TrngProofs` proves `PoolWithinBounds` and `EntropyUsedOnce` for any sizes and any number
of calls. `NoByteTwice` alone is not inductive: `PoolInv` adds that what was handed out
lies before the rest of the pool (`Spent`) and that valid entropy is newer than the
pool, so a fill never brings anything back. Every action leaves the pool alone
(`QuietPool`), empties or refills it (`RefillPool`), starts a call (`BeginPool`) or copies
(`CopyPool`, on `CopyData`, which says what a copy appends).

Three more theorems have invariants of their own. `ClockOffWhenStopped` needs that the TRNG is in
programming mode while `trng_deinit()` waits (`Stopping`), `ShortAnswerIsTruthful` that an error bit seen during a
call is one of that call (`Blamed`), and `EntropyIsFresh`, for programs that keep `AsksAfterSleep` FALSE, that the
error bit of a deep sleep stays until someone who clears it also discards what is of before the sleep (`Awake`).

### Hash and Cipher

`HashProofs` and `CipherProofs` extend `DcpProofs`. `HashFollowsDriver` and
`CipherFollowsDriver` say that every step of the program on `Hash` or `Cipher` is one of the
driver's, and through them `Owned`, `Own` and `Truthful` hold under these as well
(`HashPacketOutlivesJob` states what the run `hash_tasks` checks of the driver).

`HashInv` is the types, with the three facts that hold for any sharing of channels: a context with
work scheduled belongs to the call its task is in (`OwnWork`), so no update finds the work of
an earlier one; a partial block is shorter than a block; and what a phase of a call still has to
read is within the message (`CallShape`). `JobDataUntouched` follows, since a running channel points to a
task that is in a call, and only that task writes its object.

`DigestCorrect` and `ContextHoldsMessage` speak of objects that are `Undisturbed`:
their task owns its channels, and no message is as long as `SizeMod`, which is the only hypothesis of
`DigestIsCorrect` and `ContextKeepsMessage`; tasks that share channels may run beside them. `HashImplementsSpec` has
one state for all objects and asks it of all of them (`AllUndisturbed`). Objects of one task
may share a channel. `Kept` is the argument: between calls the object's
own context is all of its message (`Saved`); from the restore on it is the channel's context that
holds the bytes before the block, while the job runs it is the context with the packet, and after
the job it is the channel's again. `DigestCorrect` is not inductive without it, as a digest depends on what other
objects have done to the channel's context between the calls. The hypothesis is used twice: an answer of the driver is about
this job (`Truthful`), and nobody else's job writes the channel's context in between.

`CipherProofs` has `KeyInv` (types and slots), `Whole` (a key that is being written is in its slot
up to the word the call is at, and the KEY register points there), `CipherInv`
(an object's work scheduled is that of the call its task is in) and `Operated` (packet, object and destination are
what the call was asked for). `OneKeyWriter`, that one task writes to
the key RAM, is what KEY's single index asks of a program; `RestartAfterFailure` is the
finding `cipher_retry` read the other way: a `crypt()` that goes straight to the poll is no step of the
driver's, and what it returns is not about a job of its own.

### The parts

`PlatformProofs`: `SnvsInv` says what has been written at each place of the function that runs, and
that a valid key is whole at every moment in between, so that a reset may come after any write.
`CacheInv` says of every byte whether memory or the cache has its last value, at each place of a job's
maintenance (`ByteOK`): what is behind the line a loop is at is flushed, what is before it is still to be deleted.
What is to be deleted is in flight (`ToDeleteInFlight`), so a write that the deletion could drop is in `risked`, and
a byte that is not has its value in memory. `NothingAtRisk` is for destinations of whole lines, where there is no neighbour and
the property has no exception.
`RegisterInv` is about one assignment; that the masks of each register satisfy `LayoutOK`
is proved register by register (`LayoutsOK`), so the theorem speaks of the masks of the headers.

`MacProofs`: `TotpInv` says that a code is that of the digest of its step with the object's bytes after it (`CodeOK`),
which no calculation changes (`LeftoverKept`); a digest that holds all that is read determines the code alone (`DigestBytesOnly`). `HmacInv` has what each of the three hash objects
holds between two calls, after any failure; `HmacKeysAssumption` says that no key is the digest of another, as
HMAC takes a long key and its digest for one. `HmacImplementsSpec` is the
refinement of `MacSpec`, step by step (`MacStepTaken`). `HkdfInv` has the output so far as the blocks up to the counter.
`HmacDrbgInv` says that while no call has failed the members are the standard's state and that the
list of authenticators has no term twice, so that equal numbers are equal values.

`DrbgProofs`: `StateInv` ties V to the counter: C was added once for every draw, and the sum of the counters added is
`reseedCounter_ * (reseedCounter_ - 1) / 2`. `FreshInv` orders what was given
out: blocks of the seed that V is of were made with fewer additions of C than V has now, and every
seed, torn ones included, is of a seeding before the next one (`Age`).

`ArithmeticProofs`, of `RandomRange`: `AnswerIsTrue` rests on `HighBelowRange`, that the high part of a product
is below the range. `DrawsAreUnbiased` counts for every width: the words accepted for a value are as many words
in a row as the range goes into them (`AcceptedInARow`), or, for a range that is a power of 2 and divides the number of words, one of
each row of that length (`DividedEvenly`). Of `AddTo`: `CarryCarries` and `AddByteAdds` say that a byte added
with its carries adds its weight, modulo the length of the sum; `PlusSums` adds the bytes up. Of `Base32`: bit f of byte k is bit
f - 8k + 5i of the character i (`BitsOfByte`, `BitsOfChar`), which the lemmas show for each shift and
mask of a group and then across groups; `EncodedLength` and `AcceptedLength` relate the numbers of bytes, values and
pads. What is accepted loses no bit since the low bits of its last value are 0.

### Assumptions, and what is not proved

Constants satisfy the assumption named after their module, which TLC evaluates in every
run: types, values that are told apart, sizes that are not zero, buffers within memory and digests within `temp_`, and one
that says more (`HmacKeysAssumption`). Beyond these, the theorems have the hypotheses their statements name: of `Cipher`, `OneKeyWriter` and
`RestartAfterFailure`; of `Hash`, messages shorter than `SizeMod` and, for the refinement, that tasks own their channels; `ClearsErrorCode` in
`FailureIsTruthful`; AsksAfterSleep FALSE in `EntropyIsFresh`. Each is met by the instance of the run that
checks the property. Every invariant and every step property that a run checks is stated by a theorem.

Induction over data does not use the library's induction theorems but the least element of
a set of numbers (`SetInduction`), and a recursive function is shown to have values from the functions that satisfy its equation
(`RecursionWorks`).

Only model-checked: the four properties that a call returns (`EveryCallReturns`, `HashCallReturns`,
`CipherCallReturns`, `DataReturns`), as liveness is beyond the prover, and the findings.

## Not modelled, and the plan

Not modelled for good: the demo program, tables of register addresses, layout
of outputs, cipher and hash functions themselves (the coprocessor's business),
interrupts and chaining of the DCP, which the library does not use. Of the
register headers, the registers of plain fields, which differ from those that are
modelled in nothing but their bits, and those that are only read. Hazards that
no property covers are listed in `PROJECT.json` with the reason.

What is left: `Hmac` on `Hash` itself instead of on `HashSpec`, with several tasks. The
refinement theorems of both make each a promise the next layer stands on, but no module composes them.
