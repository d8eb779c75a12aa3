# nitroglow: TLA+ models and proofs

Models of the `nitroglow` tool: a user-space program that claims two GPIO pads of a
graphics card through a debugfs register file, bit-bangs I2C on them to reach the
microcontroller (MCU) of the card's lighting, and must hand the pads back as it found
them whatever happens in between. Paths below are relative to `src/`.

## 1. Inventory

The tool is six Python layers below a command line. Each process is single threaded; the
concurrency is between a process and its signals, between processes that start together,
and between the tool and the MCU at the other end of two open-drain lines.

| component | source | state | operations | what makes it correct |
|---|---|---|---|---|
| session | `nitroglow/cli.py` | lock descriptor, installed handlers | `_Session.__enter__`, `_on_signal`, `_cleanup`, `__exit__`, `main` | the registers are restored before the lock is given up; the lock always is; the outcome says whether it worked |
| pad | `nitroglow/pad.py` | `_saved` | `save`, `claim`, `set_scl`/`set_sda`, `read_*`, `release`, `restore` | lines are driven low only, and only while both pads are claimed |
| register file | `nitroglow/regs.py` | `_fd`, `dry_run` | `read32`, `write32`, `close` | only the lock's holder writes; a dry run never does |
| bit-bang layer | `nitroglow/bitbang.py` | none of its own: the lines | `bus_idle`, `start`, `restart`, `stop`, `write_byte`, `read_byte` | SDA moves under a high clock only for START and STOP; nothing hangs |
| SMBus layer | `nitroglow/smbus.py` | none | `write_byte_data`, `read_byte_data` | a call is one operation on one register and its outcome is true |
| Glow V3 register map | `nitroglow/glow.py` | none | `set_color`, `set_mode`, `set_brightness`, getters | a failed command has applied a prefix of its writes; the mode comes last |
| probe | `nitroglow/probe.py` | none | `run_probe`: lines low, no ACK, or present | the verdict fits the bus |
| commands | `nitroglow/cli.py` | none | `set`, `apply`, `get`, `off`, `probe`, `restore`; outcome to exit status | status 0 means done |
| identity guard | `nitroglow/identity.py` | none | `check_identity` | another card is never touched |
| test doubles | `tests/fakes.py` | slave: `phase`, `shift`, `nbits`, `reg`, ... | `FakeMcu.on_*`, `FakeBus.set_master_*` | the code's idea of the MCU |
| VBIOS parser | `scripts/atom_i2c_parse.py` | cursors, collected records | table reads, two byte-level walks, cross reference | no consumer of a pin is lost; it ends on every image |
| TriXX analysis | `scripts/decrypt_res.py`, `trace_model_table.py` | blob and key length in work; `num3`, `seen`, `step` | key recovery; trace of a flattened method | what is written is the vendor's plaintext; what is reported is what the method does |
| Ghidra scripts, kernel diff, packaging | `ghidra_scripts/`, `kernel/`, `bin/`, `systemd/` | none | printing; a patch of another program; start-up | not part of the running tool |

How they interact: `main` opens a `_Session` (identity, then lock, then registers, then
`save`, then the signal handlers, then `claim`), runs one command inside its `with` block,
and `__exit__` cleans up. The command calls `Glow` or `run_probe`, these call `SMBus`,
that calls `BitBang`, and every line change ends in a read-modify-write of the EN register
by `Pad._set_line`. Two things cut across the layers: an exception may leave any of them,
and a signal handler may run a *whole* `_cleanup` between any two register accesses and
then raise `SystemExit` in the interrupted code, whose own `finally` clauses (the STOP of
a transaction, `__exit__`, an outer `_cleanup`) still run.

The hard behaviour is listed with its line of code under `hazards` in `PROJECT.json`:
nested cleanups, half-done claims, descriptors that are closed but not forgotten, the gap
between two `signal.signal` calls, clock stretching against a bounded poll, a slave left in
mid transfer, commands that stop in the middle of three colour registers.

## 2. Modules

| module | models | state | actions |
|---|---|---|---|
| `PadRegs` | bits and contents of MASK, A, EN | none | `Claimed`, `Released`, `LineSet`: what claim, release and a line update do to a register |
| `Session` | `cli._Session`, `regs`, `pad` | registers, lock; per process: place, pending clauses, exception, descriptors, saved contents, handlers | one action per register access or system call of the code, plus `Signal`, `Kill` |
| `SessionInvariant`, `SessionProofs` | | | the inductive invariant and the theorems |
| `PadCustody` | what the sessions owe the display driver | registers, holder, `lost` | `Take`, `Change`, `GiveBack`, `Accident` |
| `Mcu` | `FakeMcu` | a record: phase, shift register, counters, registers, SDA | `OnStart`, `OnStop`, `OnRise`, `OnFall` |
| `SmbusWire` | `BitBang`, `SMBus`, `probe` on `FakeBus` | the call and its place, the lines, the slave | one action per line update or line read |
| `SmbusDevice` | what `SMBus` promises its callers | registers, one call and its outcome | `Begin`, `Store`, `Return`, `EndSession` |
| `SmbusWireInvariant`, `SmbusWireProofs` | | | what couples master, lines and slave; the theorems of the wire |
| `Commands` | `glow`, `cli.main` | the command, how far it is, its exit status | on top of `SmbusDevice` |
| `CommandsInvariant`, `CommandsProofs` | | | what a half-done command has behind it; the theorems |
| `Cli` | `cli.main` as a whole, `identity` | `Session` and `Commands` together, the card | a step of either or of both |
| `CliInvariant`, `CliProofs` | | | a command at each place of its session; the theorems |
| `AtomI2c` | `scripts/atom_i2c_parse.py` | the image, a cursor, what was collected | one action per table or turn of a loop |
| `AtomI2cInvariant`, `AtomI2cProofs` | | | the lists read so far; the theorems |
| `Words` | bytes, integers of a fixed width, what is used of the exclusive or | none | none |
| `DecryptRes` | `scripts/decrypt_res.py` | blob, key length, files written | one action per turn of the loop |
| `TraceModelTable` | `scripts/trace_model_table.py` | program, `num3`, `seen`, `step`, verdict | one action per turn and per early return |
| `Trixx` | one script after the other | both | |
| `KeyRecovery` | | | why the key that is found decrypts: chains and periods |
| `TrixxInvariant`, `TrixxProofs` | | | the search so far, the way so far; the theorems |
| `MC*` | | | values for TLC |

`SmbusDevice` is the joint of the stack. `SmbusWire` is shown to implement it bit by bit,
`Commands` is built on it, so neither needs the other's detail. `Session` is independent:
it sees the command as any bounded series of line updates and failures, which covers what
any command of `Commands` does to the registers, and is shown to implement `PadCustody`.
`Cli` puts the two halves together: the same process makes the calls of a command and the
line updates of a session, and the exit status is decided by both.

### Session

A process is at a place `pc` named after what it does next. `fins` counts `_cleanup`
calls whose `finally` is pending, `block` is what encloses them: the `finally` of an SMBus
transaction (`stop()`), the `with` block, or nothing. `Unwind(p, e)` is what Python does
when an activity ends with exception `e` (or `"none"`): run the innermost pending clause.
`Handler` starts another cleanup inside whatever is running, also inside a cleanup.
`regFd` distinguishes `"stale"` (closed by `os.close`, not yet `None`) because a signal
between these two statements makes later accesses raise `OSError` rather than `TypeError`.
A dry run reads registers and writes none. Before its handler is installed a signal ends
the process; after that it runs the handler. `lost` is a history variable: TRUE once a
kill, an unhandled signal or a failing write of claim or cleanup hit registers that
differed from the driver's contents, where no code of the tool can still restore them.

The file descriptor of the lock is opened without the process having the lock; `flock`
grants it to one. A process that ends loses it. Registers are sets of bits: the two pad
bits, the SDA pull-down enable and `"REST"`, which stands for all other bits and which
nothing may disturb.

### Wire and slave

`stage`, `bit`, `at` say where in `write_byte_data`, `read_byte_data` or `run_probe` the
master is. `SclLevel` and `SdaLevel` are the wired AND. `ClockEdge` and `DataEdge` call the
slave exactly when `FakeBus` does. Added to the fake, as the environment allows it: the
slave may hold SCL low whenever SCL is low (`HoldClock`) and let go at any time, the lines
may have no pull-ups, the slave may have another address, a register access may fail
(`RegFault`), and a signal may release both lines in mid transfer (`EndSession`, in either
order of the two edges). The next session then meets the slave in the phase where the
last one left it.

A dry run sets no line and reads Y of pads that are not claimed, so what it reads is
arbitrary (`Reads`). That makes it possible for a dry run to be turned away at the address.

The wire has one master and atomic line updates: `OnlyHolderWrites` of `Session` is what
justifies both. `probe --dry-run` never opens a session (`cli.py:134`) and makes no call.

### Commands

`Ops(job)` is the series of calls a command makes. A refused value (`Bad`) is noticed when
its turn comes, as `Glow._byte` and the lookup in `MODES` do, after the earlier writes.
`load_config` may refuse the file before any call. Level and mode values are symbolic.

### Cli

Each action of `Cli` takes a step of `Session`, of `Commands`, or of both. A command goes
on (`Calls`, `Answers`) only while control is in the `with` block outside any `finally`;
the line updates of the session (`Drives`) happen only inside a call; `Raises` and
`Returns` are where a result of the command becomes an exception or a return value;
`Leaves` maps what is left of it after all clauses to the exit status as `main` does.
`Entering` lets `check_identity` pass exactly for the expected card. A missing lock
directory is a `FileNotFoundError`, which `main` does not name. `Returned` and the status
are defined here anew from `main`, and `RefinesCommands` says that what comes out is a
behaviour of `Commands`, where the steps in between are one.

### TriXX analysis

`DecryptRes` works on blobs that are encrypted, as the docstring says, from a plaintext and
a key it does not know; so its output can be compared with the plaintext. A blob may be too
short or not there (`TooShort`, `Missing`), which ends the script. In `TraceModelTable` a
case's text is the sequence of statements that the script's patterns can match. `Method`
executes it: a condition governs the two statements after it, one of which is executed, and
the first return that is executed leaves the method. `LookUp` is what the script reads out
of the text, by occurrence anywhere in it. Integers are modulo `Wide`. The exclusive or is a
constant, `Exor`, of which `ExorAssumption` says all that is used: it is symmetric, undoes
itself and keeps the width of its operands. TLC is given Python's and checks that it
satisfies the assumption.

### VBIOS parser

An image is the content of its tables; the part the code walks byte by byte (record lists,
voltage objects) is a sequence of bytes that ends the file, so that reading beyond it
raises as in Python. `cut` names the table in which the file ends too early.

## 3. Runs

| run | question | instance | states |
|---|---|---|---|
| `session` | may two processes, a signal for each and a kill ever leave the registers changed behind a free lock, or somebody else write them? `TypeOK`, `RestoredWhenFree`, `OnlyHolderWrites`; do they implement the custody? `RefinesCustody` | 2 processes, 1 bus operation each, symmetry | 291 k |
| `interrupts` | the same for nested signals and faults, from registers full of stale bits: `IInv` (the invariant of the proof), `DrivenWhileClaimed`, `OpenDrain`, `HonestExit` | 1 process, 3 operations, 3 signals, 2 faults, 1 kill | 1.09 M |
| `cli` | does a command in its session, interrupted and failing, do what `Commands` says, report a result only with the pads restored, keep off another card, and end with the lock free? `RefinesCommands`, `VerdictMeansRestored`, `ForeignCardUntouched`, `CommandReturns` | 9 jobs, 3 cards, 1 bus operation, 2 signals, 1 fault | 307 k |
| `wire` | does the wire implement the device? `RefinesDevice`, `FramedByEdges`, `BusFreed`, `CallReturns`, `TypeOK` | bytes of 3 bits, 2 polls, 6 calls | 351 k |
| `commands` | what has a command that stops anywhere done? `PrefixApplied`, `AppliedOnSuccess`, `SnapshotOnSuccess`, `ModeComesLast`, `TypeOK` | 2 levels, 2 modes, 12 jobs | 5.6 k |
| `atom_i2c` | does the report have all consumers of the lists the parser undertakes to read, and does the script end? `EveryConsumerAccounted`, `ObjectsFollow`, `ScriptEnds`, `TypeOK` | all byte strings up to 6 over {0, 1, 4, 255} | 135 k |
| `trixx` | is what `decrypt_res.py` writes the plaintext, and of every blob, and what `trace_model_table.py` reports what the method does? `PlaintextComesBack`, `EveryBlobAnswered`, `VerdictIsTheMethods`, `TypeOK` | keys up to 6 bytes, header of 6; 3 cases, 3-bit integers | 186 k |

Five more runs find a behaviour that contradicts what the repository says of itself:

| run | what TLC shows |
|---|---|
| `claim_fault` | a register error in one of the writes of `claim()`, the last call of `__enter__`, leaves the pads claimed: `__exit__` does not run |
| `restore_command` | after a killed session, `restore` saves what it finds and puts that back |
| `second_cleanup` | a signal during the work cleans up twice; the second cleanup raises on the closed descriptors and the exit status is not 128 + signum |
| `dry_run` | a dry run can be stopped by a missing ACK before it has shown its writes; the trace has the lines read high until then, and where pads that are not claimed read 0 the dry run ends even earlier, in the START |
| `last_case` | the text of the last case runs to the end of the file, so that a `return` of a following method is taken for its own |

Four more such disagreements were met and have no run of their own. A probe says "no
external pull-ups" (`probe.py:45`) also when a slave that a cut-off call left in mid transfer
holds a line. A probe whose bus raises ends with the generic status 1 (`cli.py:190`), which
`docs/design.md` reserves for other commands. When the expression of the branch a case takes cannot
be evaluated, `trace_model_table.py:108` falls back to the last assignment of the text,
the other branch's, where its docstring promises the path of the card; and line 84 takes a
return that occurs for one that is reached, whatever its condition. The programs of `trixx`
have neither case.

One more scenario is worth knowing and is part of `session` through `lost`: while the
handlers are being installed one by one, a second signal of a kind not yet installed ends
the process in the middle of the cleanup that a first one of an installed kind had begun.
At that point nothing has been claimed yet, but `release()` may already have changed MASK or EN
and `restore()` has not run.

### Why the bounds are enough

- `session`: two slots that launch again and again give every interleaving of a holder, a
  process that fails on the lock, and a successor. Faults are left to `interrupts`, since a
  fault disturbs nobody but the process that has the lock.
- `interrupts`: three signals nest a cleanup in a cleanup in a cleanup and leave one for the
  clauses that follow; two faults fail a cleanup and the one it was nested in; three
  operations begin a transaction, change a line, and change one in the `stop()` after an
  interruption. The initial contents have stale bits in all three registers, so that
  restoring differs from clearing, and SDA at 1 in A and enabled at once, so that
  `OpenDrain` meets the one case in which the claim itself drives a line high. The proofs
  hold for every bound.
- `wire`: three bits are two address bits and the R/W bit, so an address can be a neighbour
  of the right one, and a byte has a first, a middle and a last bit; the two byte values are
  neither shifted nor mirrored images of each other. Two polls are a retry and a last retry.
- `commands`: every option is given, absent and refused in some job.
- `cli`: one job for every way a command can end (a call, several, none, a refused value, a
  refused or empty file, a dry run); one signal interrupts the command or the cleanup of
  `__exit__`, a second one that of the handler; the fault hits the command, the claim or a
  cleanup. Two processes are the matter of `session`, three signals that of `interrupts`.
- `trixx`: keys are up to as long as the header, so the period is found at once, late, or
  only as the header itself; either blob may be shorter than the header or missing. Three
  cases and eight numbers give returns (also before dead code and after a condition), loops,
  missing cases and cases met again with another number; the limit of six steps is reached.
- `atom_i2c`: an i2c record needs four bytes, so six hold one in every position, cut by the
  end, before and after others; the limit of 32 records is 2, which lists of one-byte
  records exceed.

`session`, `interrupts`, `wire`, `commands` and `cli` check deadlock: a process can always
be launched. `atom_i2c` and `trixx` do not, since a script ends.

### Fairness

`CommandReturns` assumes weak fairness of the process's own steps, `Goes`: a running Python
process is scheduled. Nothing says that anybody launches or signals one, or that the device
stores a value. That a call gets its answer is part of `Goes` because `CallReturns` shows it of
the wire.
`CallReturns` assumes weak fairness of the master's steps alone; the slave may hold the
clock or SDA for ever. `ScriptEnds` assumes that the script is scheduled.

## 4. Proofs

Every safety property the passing runs check is also proved, for every value of the
constants that satisfies the named assumptions of the modules; so are the three
refinements. Each component has an inductive invariant in a module of its own, which TLC
checked on the run's instance before it was proved.

| module | theorem | states |
|---|---|---|
| `SessionProofs` | `Invariance` | `Spec => []IInv` |
| | `TypeCorrect`, `Restored`, `Driven` | `[]TypeOK`, `[]RestoredWhenFree`, `[]DrivenWhileClaimed` |
| | `NeverDrivenHigh` | `[]OpenDrain` |
| | `HolderWrites`, `Honesty` | `OnlyHolderWrites`, `HonestExit` |
| | `KeepsCustody` | `RefinesCustody` |
| `SmbusWireProofs` | `InvHolds` | `[]IInv` of the wire |
| | `TypeCorrect`, `Framed`, `Freed` | `[]TypeOK`, `FramedByEdges`, `BusFreed` |
| | `WireImplementsDevice` | `RefinesDevice` |
| `CommandsProofs` | `CommandInvHolds`, `CommandTypeCorrect` | `[]CInv`, `[]TypeOK` |
| | `PrefixAlwaysApplied` | `[]PrefixApplied` |
| | `SuccessMeansApplied`, `SuccessMeansSnapshot`, `ModeAlwaysLast` | `AppliedOnSuccess`, `SnapshotOnSuccess`, `ModeComesLast` |
| `CliProofs` | `CliInvHolds` | `[]CliInv` |
| | `ForeignCardIsSafe`, `VerdictsAreClean` | `ForeignCardUntouched`, `VerdictMeansRestored` |
| | `ToolImplementsCommands` | `RefinesCommands` |
| `AtomI2cProofs` | `AtomInvHolds`, `AtomTypeCorrect` | `[]AInv`, `[]TypeOK` |
| | `ObjectsAlwaysFollow`, `ConsumersAccounted` | `[]ObjectsFollow`, `[]EveryConsumerAccounted` |
| `KeyRecovery` | `ShortestPeriod` | a period seen along the header is the key's |
| `TrixxProofs` | `TrixxInvHolds`, `TrixxTypeCorrect` | `[]TrixxInv`, `[]TypeOK` |
| | `PlaintextRecovered`, `BlobsAnswered` | `[]PlaintextComesBack`, `[]EveryBlobAnswered` |
| | `VerdictCorrect` | `[]VerdictIsTheMethods`, if every program is `Legible` |

The assumptions say that special values are none of the values they stand beside
(`NoProc`, `NoSave`, `NoCall`, `NoByte`, `NoJob`, `Absent`), that constants have their
types, and that bounds are natural numbers. Those with more to them: a byte has at least
two bits (`BitsAssumption`), a poll is made at least once (`RetriesAssumption`), no more
than the script's own limits (`Limit <= Wide`: 4000 steps against 2^32 numbers; `MaxLen >=
Len(MZ)`: 64 against 60), and `ExorAssumption`.

### Session

`RestoredWhenFree` is not inductive: that the lock is free says nothing about how it became
so. `IInv` adds what each place of the code can rely on, in layers that are proved in this
order. `Control`: which clauses are pending where (an entering process has none, a cleanup
has at least its own). `Descriptors`: only the holder has the register file open, the
places that write have it open or stale, and `save` came before them. `Tracks`: how the
registers relate to what the holder saved, place by place (equal until `claim`'s first
write; EN, then A, then MASK equal again during `restore`; equal where a cleanup ended
without an error). `Clean`: unless something was lost, what the holder saved is the
driver's contents, and they are back wherever the register file is not open. The stale
descriptor is what makes the second layer necessary: the cleanups and the `stop()` that
run after a handler's cleanup go through all the code that writes, and only the closed
descriptor keeps them from the registers. The lemmas about `Unwind` carry all cases in
which an activity ends, so that each action is proved once for its normal step and once
for the unwinding.

`KeepsCustody` is a refinement with `hw` as the pads, `lock` as the holder and `lost`. Every
step of a process is classified by what it does to the three (`CustodyEffect`): the only
one that frees the lock without an accident is one after which `Clean` holds with the lock
free, so that the registers are the baseline, which is what `GiveBack` demands.

`NeverDrivenHigh` has no hypothesis about the driver's contents. `claim` takes the pads in
MASK before it clears A, so a line the driver has left at 1 in A and enabled in EN is
claimed and driven high between its first two writes, or, when a signal or an error comes
there, until the `release` of the cleanup has cleared EN; the run has such a line, and it
is why the code is exposed at `pad.py:66`. `OpenDrain` says that this is the only way: no
other line is ever driven high, and from the second write of `claim` to the last of
`restore` no line at all. The layer it needs (`Drains`) says of the registers and of
everything saved that a line in both A and EN is one the driver left so (`Inherited`), and
that A holds nothing or what was saved; `Tracks` adds that EN is 0 behind `release`'s first
write and that the pads are out of MASK before `restore` writes A.

### Wire

Nothing about the lines is inductive without the slave: that the master reads its ACK at
the ninth clock depends on the slave having counted the same eight. `IInv` couples the two.
`Places` says where in a call the master can be, `Sane` that the slave has what its phase
uses, `Lines` which levels the master has set, `Follows` that the slave has shifted in
exactly the bits it has been shown and is in the phase that fits, and `Answers` that the ACK
and the bits read are what the slave put on the line. The last three say nothing of a
transaction that an exception has upset, since its `stop()` runs on a bus in any state, and
the next call begins with a slave in any phase; the START is what brings it back. The proof
goes through one lemma for the slave at each of the four edges.

`WireImplementsDevice` maps the slave's registers and the call to `SmbusDevice`: the store
is the falling edge that completes the value byte, the outcome is what `Answers` says of it.

### Commands and the tool

`CInv` says that the call under way is the next of the command's list (`Course`), that what
has been read is still what the registers hold (`Reads`: nothing else writes the device in
`Commands`, which is what the lock is for and `OnlyHolderWrites` shows of the session), and
that the registers are those of before with the calls that succeeded applied, and at most
the one under way (`Applied`).

`CliProofs` does not repeat the proof of the session. A process of `Cli` is a session with
one process, so the module takes `SessionProofs` by `INSTANCE` and every step of `Cli` is
shown to be a step of that session or none (`ToolStep`). On top of the session's invariant
`CliInv` says how far the command can be at each place of it (`Phases`), that a cleanup with
no exception in flight is the only one and has put the registers back when it ends (`Quiet`),
and where a process on another card can be (`Refusal`). `ToolImplementsCommands` follows:
every step is one of `Commands` or none, and the exit status is decided at the last one.
It also rests on the arms of `Returned` being exclusive at the end of a command, which is
proved first.

### Parser

`Walk` says that each list read so far is a beginning of the list in the image and that one
that is done is full or has no further record; `ObjectWalk` the same of the voltage objects.
`Chain`, the records that belong to a list, is the least set closed under the step from a
record to the next, and not a recursion; `ConsumersAccounted` compares with it. The
positions ascend because every record has a size, so a list is read without repetition. What
is complete is complete up to the code's own limits: 32 records of a list
(`BIOS_MAX_NUM_RECORD`) and lists of revision 4 or 5. An image beyond them has consumers the
report does not name, and says nothing of them.

### TriXX analysis

`PlaintextRecovered` needs a fact about words: when a key of length K runs along a header of
at least 2K - 2 bytes, any period L < K of what is seen there is a period of the whole
running key (`KeyPeriod`). The header shows that key and shifted key agree at all places but
one. The shift is a permutation of the K places; if the last one did not agree, the places
with its byte and that one would map into fewer places without a collision, which the
pigeonhole principle forbids. The bound is sharp: one byte less of header, and a chance in
the key can show a shorter period (a key of two bytes under a header of one). `KeySearch`
adds that all shorter lengths have been tried; that a length is found at all, so that
`recover_key` never returns `None`, is part of it.

`BlobsAnswered` needs only that `written` and `index` go together, which `KeySearch` says.

`VerdictCorrect` holds of programs that are `Legible`: nothing follows the switch (see
`last_case`), and every case returns or goes on in one of three forms. A case that returns
does so for every card (`ReturnForm`): the script searches the text for a return before it
looks at the condition (`trace_model_table.py:84`), so a return on one branch only would be
reported for all. Of the forms that go on, the second must not leave the script with an
assignment it can evaluate in place of one it cannot (the fallback of
`trace_model_table.py:108`). That what occurs is what is reached is then a lemma
(`ReturnsWhereItEnds`). `MCTrixx` has TLC check that its programs are.
`Followed` says that after n steps the script has the method's n-th number, and that all the
ones before go on; so a number met again is met for ever (`CourseLoops`), and a case that
returns is where the method stays (`CourseRests`).

Inductions over data are proved as the absence of a least counterexample
(`LeastElement`), since the library's induction rules take an operator, which the provers
cannot instantiate.

### Only model-checked

`CallReturns`, `CommandReturns` and `ScriptEnds`: liveness under fairness is out of the
prover's reach.

## 5. Not modelled

- The display driver writing the same registers during a session: declared unsupported and
  undetectable by `README.md` and `docs/design.md`.
- Delays and timing; the effect of the pull-down on the lines between sessions.
- The text of arguments and config files; formatting of output.
- Kills in `Cli`: `Session` has them, and for a command they are a signal without handler.
- `set_external_control` and `present` of `Glow`, which no command calls.
- In the parser: the register map, the naming of connectors, the printing.
- In the TriXX scripts: file names, the PE and CLI markers that are printed, C# text below
  the statements that the patterns match, and `case` labels of another switch after the one
  with the cases, which would replace cases of the same number.
- `ghidra_scripts/`, `kernel/`, `bin/`, `systemd/`: printing of what a disassembler knows, a
  patch of another program, start-up.

## 6. Plan

Done, in this order: `PadRegs`, `Session` and its proofs; `Mcu`, `SmbusDevice`,
`SmbusWire` and the refinement; `Commands`; `AtomI2c`; `PadCustody` and the proof that
`Session` implements it; `Cli`; `DecryptRes`, `TraceModelTable`, `Trixx`.

Then the proofs: `OpenDrain`; the coupling invariant of the wire and its refinement; the
commands; the parser; the tool, on the session's invariant; the key recovery and the trace.

Next:
1. What `Cli` inherits from the session by `ToolStep`: custody and restoration of the whole
   tool, for every command.
2. That the trace never stops at a case of a legible program whose expressions are all known,
   but for the step limit.
3. The register map and the naming of connectors in the parser.
