# Verification of the home assignments: aucont, convolution, scan

This directory holds TLA+ models of the programs under `src/`, the TLC runs that
check them and the TLAPS proofs about them. It is written for a reader who has the
repository open beside it. Line numbers are of the files under `src/`; where no file
is named they are of `src/virt_task1/aucont.cpp`.

## 1. Inventory

The repository holds three programs that share nothing.

| component | state | operations | interacts with |
|---|---|---|---|
| **pids storage** (78-169) | the file `pids_storage`: an array of ints; one `fstream` per object; a named POSIX semaphore | `push_back`, `remove_by_pid`, `get_pid`, `remove_by_idx` (no caller), `pids_count`, `remove_by_idx_unsafe` | every aucont command that runs at the same time, through the file and the semaphore |
| **aucont start** (310-425) | `pid`, `pipe[2]`, the steps done so far, a cgroup directory, a veth pair | pipe, clone, id maps, cgroup, network, `push_back`, `'g'` or `'s'` on the pipe, waitpid, `remove_by_pid` | container_main by the pipe and its exit; pids storage; other commands through kernel objects |
| **container_main** (208-305) | `go`, its mounts, root, host name, network | read the byte, set up, `execv` | aucont start |
| **aucont stop** (428-458) | - | `remove_by_pid`, existence test, `kill` | pids storage; the process table |
| **aucont list** (460-482) | `pid_idx` | `get_pid` in a loop, existence test | pids storage; the process table |
| **aucont exec** (491-551) | cgroup membership, six namespaces, root, a child | open and `setns` one namespace after the other, `chroot`, fork, `execv`, `waitpid` | the container, by its pid and `/proc` |
| **command line** (`main.cpp`, `aucont.h`, `error_codes.h`) | the arguments of the call it makes | dispatch of `start`, `stop`, `list`, `exec`; descriptors; checks of the options' arguments (`percent`, `ip`); report of unknown options; host address; exit codes | the option parser; the four commands |
| **option parser** (`optionparser.h`) | the place in the vector; `buffer_max`; the arrays `options` and `buffer` with their linked lists; the non-option arguments; `err` | `Stats::add` (count), `Parser::parse` (store), list accessors; usage printing | command line, by descriptors, check functions and arrays made between the two passes |
| **opencl1 convolution** (`convolution.cl`, `Source.cpp`) | three buffers | one kernel, one work-item per output cell | - |
| **opencl2 scan** (`scan.cl`, `Source.cpp`) | a work-group's local array; one buffer per level of the recursion | kernels `block_sums`, `block_add`; the recursive host function `scan` | work-items by local memory and barriers; host and device by buffers and a queue |
| scripts, Makefile | none | compile; pass arguments on | - |

### What is hard in it, and what makes each component correct

*Pids storage.* Several commands use one file. Each call is a sequence of seeks, reads
and writes on a stream with one position and a sticky failbit; the only protection is
the named semaphore, which no one posts for a process that was killed. Correct is: one
call at a time; what a call read at its beginning is still so when it is used; every
call is atomic for the others; entries do not move under a list that walks them by
index with the semaphore dropped between two steps; every call ends.

*Start and container_main.* Parent and child run at the same time. The child must do
nothing until the parent has mapped ids, made the cgroup, moved the network device and
listed the pid, and must not be left waiting when the parent fails or is killed. The
only means is one byte on a pipe: `'g'`, `'s'`, or end of file, at which `read` returns
0 (not -1) and the byte is compared unassigned (220-223). Correct is: the command runs
only in a container that is complete; a start that fails leaves no child behind; a
foreground start returns after its container; the number it reports is the exit code.

*Stop, list and the process table.* Everything goes by pid, and pids are reused. An
entry may outlive its container (a daemonized container that ends is never taken out),
and the test for existence, the search of the file and the signal are three steps.
Correct is: list shows every container that was running, with its entry in the file,
from before the list began; stop signals a container only; a pid said not to be
aucont's is none.

*Exec.* The cgroup, the root directory and six namespaces are entered one by one by
path, the pid may be reused in between, the container may end, and a failed fork is
taken for a successful one. Correct is: exec is never in parts of two containers; the
command runs entirely in one container or not at all; exec does not outlive the
container it is in; a 0 from it means that the command ran.

*Option parser.* The vector is passed over twice, by a counting and by a storing action,
and the second pass writes, without a bound, to an array that has the size the first one
found. A word can be an option, several, the argument of the option before it, the
argument inside its own word, `--`, or the first of the rest. Options of one index are a
ring whose first element is a copy in another array and whose ends are tagged pointers.
Correct is: both passes agree; each word has exactly one part; each list has its options,
once, in order; the loops end.

*Command line.* Numbers of arguments, conversions that cut to an `int`, and the address
arithmetic at their boundaries; a check and the use of its result in two places. Correct
is: an error is told once and makes the command fail; what is called has its values in
range, and all the words of the command.

*Convolution and scan.* Work-items outside the matrix; reads and writes of a shared
array between barriers; the reuse of buffers over the levels of a recursion with an
asynchronous queue. Correct is: no race, no access out of bounds, the result of the
definition.

## 2. Modules

| module | what it is |
|---|---|
| `PidsFile` | the file as a sequence of ints and the `fstream` operations on it |
| `PidsStorage` | class `pids_storage` called by commands that run at the same time and may be killed |
| `PidRegistry` | the abstract specification: each call is one atomic step |
| `PidsStorage_proofs` | TLAPS proofs for `PidsStorage`, its refinement of `PidRegistry` included |
| `StartHandshake` | one `aucont start` and its `container_main`, every fallible call, kills of both |
| `StartHandshake_proofs` | TLAPS proofs for `StartHandshake` |
| `Aucont` | several `start`, `stop` and `list` commands, containers, and a kernel that reuses pids |
| `Aucont_proofs` | TLAPS proofs for `Aucont` |
| `AucontExec` | one `aucont exec` on a pid that containers and other programs take and leave |
| `AucontExec_proofs` | TLAPS proofs for `AucontExec` |
| `BlockScan` | the abstract specification of a work-group of `block_sums`: the prefix sums of its block |
| `BlockSums` | that work-group item by item, with local memory, reads and writes apart, and barriers |
| `BlockSums_proofs` | TLAPS proofs for `BlockSums`: indices in range, no race, and that it implements `BlockScan` |
| `ScanHost` | the recursive host function `scan`, its buffers, and `block_add` |
| `ScanHost_proofs` | TLAPS proofs for `ScanHost`: bounds, that a waiting call keeps its sums, the result |
| `Arguments` | the words of a command line, and what `percent`, `ip` and the conversions make of a text |
| `OptionParser` | both passes of the option parser over a vector, and its lists of options |
| `CommandLine` | `main` and the four `aucont_*_main`, from the vector to the call or the exit code |
| `CommandLine_proofs` | TLAPS proofs for `OptionParser` and `CommandLine` |
| `Convolution` | the kernel `convolution`, work-item by work-item, and the host program around it |
| `Convolution_proofs` | TLAPS proofs for `Convolution` |
| `MC*` | the constants of the TLC runs |

`PidsStorage` shows that a storage call is atomic; `Aucont` therefore makes each call
one step (`RemoveByPid` is what `PidRegistry!Remove` does). In the same way
`StartHandshake` treats one start in detail, and `Aucont` takes from it that a start
is: create, setup (which may fail), register, go, wait, remove. `AucontExec` shares with
`Aucont` the view of pids and of a container's life, but not the pids file, which exec
does not use. `BlockSums` implements `BlockScan`; `ScanHost` runs the kernel
`block_sums` in one step, with the result that `BlockScan` states for each group.
`CommandLine` extends `OptionParser`, which extends `Arguments`: a step of the parser is a
step of the program (`Parse`). It ends where the other models begin: with the call of
`aucont_start`, `_stop`, `_list` or `_exec`, or an exit code. `Convolution` stands alone.

### 2.1 PidsFile and PidsStorage

*State.* `file` is the file; positions count ints because every access of the class is
of `sizeof(int)` bytes at a multiple of it. `stream[c]` is the position and failbit of
the fstream of command `c`. `sem` is the semaphore. `pc`, `op`, `pid`, `idx`, `count`,
`ok` are the command's place in the code and the local variables of the call: `idx` is
`pos_found` (114) or `pid_idx` (467), `count` the result of `pids_count` (112, 132).

*Actions.* `Begin` makes the object (87-92) and starts the call of `push_back` (392),
`remove_by_pid` (436) or `get_pid` (467). `Lock` and `Unlock` are 69-76. `SeekEnd` and
`Write` are `push_back`; `Count`, `Scan` (one turn of the loop 115-123), `Overwrite`
and `Truncate` are `remove_by_pid`; `Count` and `Get` are `get_pid`. `WaitedRemove` and
`ListNext` are the second and further calls of one command. `Kill` ends a command
between any two steps; nothing then posts the semaphore.

*The removal.* `remove_by_idx_unsafe` seeks to `sizeof(int)` **after** the end (147),
so the read fails and sets failbit, the write of 148 does nothing, and `truncate` (151)
drops the **last** entry. `OverwriteEntry` computes this from the stream operations,
and nothing in the model states it. `PidRegistry!Remove` states the consequence: if the
pid is present, the last entry goes. That entries never move, on which `aucont_list`
depends, is a consequence of the same: with the read at `end - 1`, as the code seems to
mean, the last entry would move into the gap and a list under way could pass it over.
The mutant `OverwriteWithLast` is that version, and the run finds `EntriesNeverMove`
violated.

*Abstractions.* `open` creates the file with `PIDS_FILE_NAME` relative to the working
directory, while the semaphore's name is global; all commands are taken to run in one
directory. The `open` of the file and of the semaphore do not fail. `remove_by_idx` is
not modelled as an operation: nothing calls it, and its body is the tail of
`remove_by_pid`. A failed `truncate` aborts the process by an assert (152) and is a
`Kill` at that step. Deadlock by a lost semaphore is what `ExitOrLost` names. `pids_count` throws for a file
whose size is not a multiple of `sizeof(int)` (159-162); no command writes or cuts a part
of an int, so the branch is left out, as is every other file that aucont did not write.
That a start has `--daemonize` is not recorded here: after its push, `Exit` is a
daemonized start and `WaitedRemove` one whose `waitpid` has returned.

### 2.2 StartHandshake

*State.* `ppc` and `cpc` are the places of parent and child; `pdone` and `cdone` count
the setup steps done, in the order of `ParentSteps` (346-391) and `ChildSteps`
(233-288), which depend on `--net` and `--daemonize`. `pipe` is the pipe's content and
`ends` the descriptors that are open: a write without any reader raises SIGPIPE, or
fails if aucont was run with that signal ignored (`args.nosigpipe`; a disposition that
`exec` inherits), a read without any writer sees end of file. `storage` is the set of calls made to the storage,
`status` what `waitpid` sees, `outcome` how the parent ended.

*Actions.* One per line of code that can fail or block; a call whose result is checked
by `check_result` or `exec_check_result` (42-54) may fail if it is in `Fallible`, and
then goes to the handler (417-424: `CatchWrite`, `CatchReturn`) or ends the child with
the code the source returns there. `KillParent` and `KillChild` are signals.

*The unassigned byte.* At end of file `read` returns 0 and assigns nothing, so `go` is
what the stack holds. The child runs on `child_stack`, a static array and therefore
zero (333-335), and no call made before goes as deep; `StackByte` is thus a byte that
is not `'g'`, and the mutant `StackByteGo` shows that `CommandRunsConfigured` rests on
this.

*Abstractions.* A step of the setup is a name: which file a shell command writes does
not bear on the properties. The shells that `system` starts hold the write end of the
pipe for as long as they run; the parent waits for them, except when it is killed, when
end of file comes that much later. Ctrl-C at a terminal is `KillParent` and `KillChild`.
`close` of a pipe end may fail in the model (the code checks it); the end is closed all
the same, as Linux does. If `close` fails after the `'g'`, the start reports an error for
a container that runs on: `FailedStartStopsChild` is about a child that has not been
given its `'g'`.

### 2.3 Aucont

*State.* `entries` is the pids file. `occupant[p]` is the process that has pid `p`: a
container, named by the start that made it, another program, or nobody. `cstate` is the
state of a container (waiting for its byte, running, a zombie, gone). `daemonize`, `pc`,
`pid`, `removed`, `idx` are the option, the place and the local variables of the
commands. Three auxiliary variables observe: `signalled`, whom a stop has signalled;
`printed`, what a list has printed; `due`, what it owes its user: the containers that
have been running, with an entry, since it began.

*Actions.* `Create`, `Setup`, `Push`, `Go`, `Wait`, `RemoveWaited` are `aucont_start`;
`StopRemove`, `StopExist`, `StopKill` are `aucont_stop` (the search in the file, the
test by `kill(pid, 0)`, the signal); `ListBegin`, `ListGet`, `ListPrint` are
`aucont_list`. `Finish`, `OtherStarts`, `OtherEnds` are the environment. A container that
ends while its start lives is a zombie, and has its pid, until the start waits for it
or ends.

*Abstractions.* The pid given to stop is any pid, not one that list has shown. The
cgroup directory and the network devices, which no command removes (the usage of stop
has "cleans up container resources", `main.cpp` 110, and `aucont_stop` sends a signal),
are left out.

### 2.4 AucontExec

*State.* `occupant` and `cstate` as in `Aucont`; `cgroups` is the set of pids with a
directory in the cpu cgroup. Of exec, `pc` and `step` are the place (`step` counts the
`set_ns` calls done), `fd` says whose namespace the open descriptor is of, `ns` in whose
namespaces exec is, `cgroup` which pid's directory it has entered, `dirs` whose working
and root directory it has, `child` what became of the fork.

*Actions.* `EnterCgroup` (506-509), `EnterRoot` (512-515), `OpenNs` and `SetNs` for the
two halves of `set_ns` (484-488), six times in the order of 519-524, `Chroot` (527-528),
`Fork`, `Execute` (533-540) and `Wait` (541-546). Around them a container is cloned,
gets its cgroup directory (`MakeCgroup`) and its `'g'` (`Go`), ends, is reaped, and other programs use the pids, between any two steps.

*What the kernel does* is external, and the properties rest on it:

- A namespace is opened by path at one moment and entered by its descriptor at a later
  one; the descriptor keeps the namespace, not the process.
- `setns` of a user namespace fails for the one the process is in. Once in a container's
  user namespace, a process may enter only namespaces which that one owns, so those of
  another container, or of the host, are refused. This is why the order of 519-524, the
  user namespace first, makes `OneContainer` hold; the mutant `UserLast` breaks it.
- Of a zombie, what depends on its resources cannot be opened. Any other call may fail
  too, `fchdir` after its `open`, `close` after its `setns` and `chroot` included, and ends
  exec in its handler.
- Of the processes of a pid namespace none outlives its first one, and `fork` fails when
  it is gone.
- A cgroup directory is found by pid and never removed, so a new container with the pid
  of an old one has one before it is configured.

A container may still be waiting for its byte, or setting itself up, when exec enters:
the code does not ask, so "inside" means inside its namespaces, not that its own setup
is complete. Writing the cgroup of a container does not depend on its being alive.

### 2.5 BlockScan and BlockSums

*State.* `n` and `group` are the kernel's argument and the group; `output` the buffer in
global memory, `local_out` the array in local memory; `pc[i]`, `d[i]` and `read[i]` are
the place of work-item `i`, its loop variable, and the operands it has read and not yet
used.

*Actions.* `Load` (7-13), `Up` and `UpWrite` (the loop 17-27), `Clear` (29-32), `Down`,
`DownWrite`, `DownSwap` (34-43) and `Store` (46-56). A `+=` reads in one step and writes
in a later one. A barrier is one action of all items, enabled when all are at it.

*Abstractions.* Floats are integers. Inputs are powers of three and prefix sums theirs,
so a sum tells which inputs it is made of. An item that reads while another writes would
be undefined in OpenCL C; `NoRace` says that it does not happen, and the step-by-step
semantics of the model is only used under it. Groups share nothing but the input.

### 2.6 ScanHost

*State.* `buffers` is the device memory, `stack` the calls of `scan` with their arguments,
place and local variables, `result` what `main` gets.

*Actions.* `RunBlockSums` (18-21), `ReadOutput` (23-29, with the return for a single
block), `Descend` (31-46: the totals of the full blocks, the new buffer and the
recursive call, given the *caller's input* as its output), `WriteAdditions` (48-50),
`RunBlockAdd` (52, into the caller's input), `ReadBack` (54-55), and `Throw`, an OpenCL
error at any step, which ends all calls. Kernels are awaited (`wait`) and reads and
writes block, so each is a step.

*Abstractions.* Reading and writing the files is left out. `BLOCK_SIZE` is at least 2:
the comment allows `2^x` from 1, for which `n / BLOCK_SIZE` is `n` and the recursion does
not end; the constant is 256. For `n = 0` the creation of a buffer throws at once.

### 2.7 Arguments and OptionParser (`optionparser.h`)

*Words.* A word is what the parser can tell of it: plain, `--`, one long option, or a
group of short ones, with the texts that an argument attached to it would be. What
`strtol` and `inet_pton` make of a text is a table, `Number` and `Address`; a number is a
`long` and `ToInt` cuts it to an `int` of `INT` values.

*State.* `usage` and `argv` are the arguments of the parse. `cursor` is `args` and `param`
of `workhorse` (1511, 1513, 1605): a word and a place in it. `pass` says which action
`workhorse` runs for. `cell` holds the used elements of `options` and `buffer`, with
`desc`, `name`, `arg` and the two tagged pointers. `messages` counts what the check
functions have printed. `log` is auxiliary: where the counting pass was, and how much it
had counted there.

*Actions.* One turn of the inner loop each: `Skip` (the head or the end of a group, or an
option without a descriptor), `Count` (1405-1411) and `Store` (1445-1461). `Counted` ends
`Stats::add` and begins `parse`; `Abort` (1635-1636, 1657-1658, 1482) and `Finish`
(1463-1475) end it. `Onward` is where the turn leaves the place: an accepted argument
ends a group (1648) and is skipped when it is a word of its own (1639-1645).

*Abstractions.* What no call of aucont uses is left out: the reordering of arguments (so
`nonops` is 0 and `shift` does nothing), abbreviations, long options with one minus, a
bounded buffer, several parses with one parser, and the accessors nobody calls. So is the
layout of `printUsage` (from 1683 on), which prints and changes nothing. `namelen` is for
printing. That a count ended by an error leaves a buffer that is too small for the whole
vector is in the model: the storing pass ends at the same error.

### 2.8 CommandLine (`main.cpp`)

*State.* `command` is the word that selects the command; `place` where the program is;
`opt` the loop variable of the report; `reported` what it has printed; `outcome` the exit
code; `call` the arguments structure of `aucont.h` that is passed on.

*Actions.* `Main` is the dispatch; `Parse` a step of the parser; `ParseError`, `Help` and
`Accepted` the three ways on, in the order of the code (71-78); `Report` a turn of the
loop over unknown options (80-82); `Start`, `Stop`, `List` and `Exec` the rest of the four
functions, which differ in the number of arguments they need (`Needed`) and the values
they make. A string made of a null pointer ends in `place = "crashed"`: `exec` with a pid
and no command (221, 237). `NullOnlyInExec` says that no other command line does it.

*Abstractions.* `aucont_start` is called with uninitialised addresses when `--net` is not
given; it does not read them, and they are `None`.

### 2.9 Convolution (`src/opencl1`)

*State.* `n`, `m` and `supplied` describe the file; `host` is the place of `main`;
`input_a`, `input_b` and `output` are the buffers; `pc`, `dy` and `dx` the place and the
loop variables of each work-item of the rounded grid.

*Actions.* `CreateBuffers` to `WriteFile` are `main` (37-98), `Throw` an OpenCL error at
any step (102-106). `Enter` is the guard and the zeroing of the cell, `SkipRow` and
`SkipCell` the two `continue`s, `Accumulate` the `+=`. That `+=` reads and writes a cell
of global memory; it is one step because `NoRace`, which is proved, says that no other
item uses the cell.

*Abstractions.* A number is its place in the file, 0 if the file ends before, and a sum is
the sequence of its products: `ResultIsConvolution` thus also says that the order in which
floats are added does not depend on the schedule. Sizes are not negative. Of the
platform's setup (18-35) only its failure is left, which is `Throw` at the first step.
Without `n` or `m` in the file the `int` stays uninitialised (38-40: at the end of the
file `>>` assigns nothing), or is 0 if what is there is no number; the model has the sizes
that are read or happen to be there, `Sizes`, of which 0 makes no buffer.

## 3. Runs

Passing runs:

| run | instance | what it shows |
|---|---|---|
| `storage` | 2 commands, each may be killed at any step, any file of up to 3 entries over 2 pids | `TypeOK`, `MutualExclusion`, `CountIsFresh`, `EntriesNeverMove`; every call is atomic (`ImplementsRegistry`); under fairness every command ends or comes to wait for its container, unless a killed one has taken the semaphore with it (`ExitOrLost`), and then it stays lost (`LostForever`) |
| `start` | one start; every combination of options, SIGPIPE ignored or not; every call may fail; both may be killed | `CommandRunsConfigured`, `SigpipeOnlyAfterKill`, `ForegroundWaits`, and under fairness `FailedStartStopsChild` |
| `commands` | 2 starts, a stop, a list, 3 pids, 1 stale entry | `ListComplete`, `RunningAccounted` |
| `exec` | 2 containers, 2 pids, other programs; every call may fail | `OneContainer`, `CommandInside`, and under fairness `EndsWithContainer` |
| `block_sums` | 8 items; every length up to 9, each group | every index in range (`TypeOK`), `NoRace`, `ImplementsKernel`, and under fairness `GroupEnds` |
| `scan` | blocks of 2, every length up to 17 | `InBounds`, `CallerKeepsSums`, `ResultIsScan` |
| `command_line` | every command with every vector of up to 3 of 13 words | `BufferFits`, `ListsInOrder`, `EveryWordOnePart`, `OneMessage`, `UnknownReported`, `LimitInRange`, `HostIsNext`, `CommandWhole`, `NullOnlyInExec`, and under fairness `Ends` |
| `convolution` | groups of 3 by 3; matrices up to 3, windows up to 4; a file that may be one number short | `InBounds`, `NoRace`, `ResultIsConvolution` |

Runs that end in a counterexample, each for a statement the repository makes:

| run | statement | what happens |
|---|---|---|
| `removed_entry` | "Pid is removed" (411) | the last entry is removed in place of the one found (147: the read is past the end) |
| `start_exit_code` | "Exit code: " (410) | the number is the raw wait status, 256 times the code, and `main` returns it: 0 in 8 bits |
| `stop_foreign` | "Kills root container process with signal" (`main.cpp` 110) | an entry outlives its container, and the signal reaches the process that has its pid now |
| `exec_return` | "command to run inside container" (`main.cpp` 203) | exec returns 0 when its fork or `execv` has failed (532, 542) |

### Bounds, and why they are enough

`MaxInitial = 3` lets a removal hit the first, a middle and the last entry; two pids
give duplicates and misses. Two commands are two in conflict, each of which may be the
one that is killed; the safety properties of `storage` are proved for any number. In
`commands`, two starts are the one whose removal does
damage and the one that suffers it; the third pid is for reuse by another program, and
`MaxStale = 1` puts an entry that earlier commands left in front of them. `start` is one
start: starts interact only through the storage and the process table, which `commands`
has. `exec` has two containers because a mixture needs two, and two pids because one
container may live elsewhere while the other takes the pid. Eight items give three
levels of each sweep, so that a middle one has neighbours on both sides; lengths up to 9
give a group that is cut short, one that is full, and a second group with one cell.
Blocks of 2 and lengths up to 17 make the recursion four deep, with the last block
partial and full on each level. Three words are an option, its argument and what follows,
or three options of one index, so that a list has a first, a middle and a last element.
The 13 words have each kind of each word: flags, unknown options, short options alone and
in groups, arguments attached, missing, wrong, at the edge of an 8-bit `int` (`INT = 256`:
300 is cut to 44, a percentage) and of 16 addresses (`IPV4 = 16`: the last is refused, its
predecessor is not). `MaxOptions = 5` is `0x7fffffff` scaled down; three words hold up to
six options. In `convolution`, a group of 3 by 3 with matrices of 1 and 2 leaves
idle items past the end of rows and columns, and one of 3 fills it; windows of 1 to 4 have
even and odd widths, and some are wider than the matrix. Files are bounded by the number of commands; no action has a bound of its own.
Processes of one kind are interchangeable, and the safety runs declare them a symmetry
set; the runs with liveness do not.

### Fairness

`PidsStorage!FairSpec` asks weak fairness of each command's steps, except where a start
has pushed its pid and not yet gone on (`AtWaitpid`). A process that can run is scheduled;
but there a foreground start is in `waitpid` (407) for as long as the command of its
container runs, which may be for ever. So `ExitOrLost` says of a start that its push comes
to an end, and of one whose `waitpid` has returned that its removal does. Weak fairness of
`Lock` is not fairness of the semaphore: a command waiting in `sem_wait` is disabled again
and again. It is enough here because every other command makes finitely many calls, so a
waiting one is at last alone. `Begin` and `Kill` are not fair: nobody has to start a
command or send a signal.

`StartHandshake!FairSpec` asks it of the child's steps up to `execv` only. The parent may
wait for ever, for a lost semaphore or for its container, and the container's command
need never end; `FailedStartStopsChild` depends on neither.

`AucontExec!FairSpec` asks weak fairness of exec and its child up to `execv`, not of containers, of
other programs or of the command. `BlockSums!FairSpec` asks it of each work-item, as
OpenCL must grant within a group for barriers to work, and of the barriers.
`CommandLine!FairSpec` asks it of the one sequential program: it is scheduled.

## 4. Proofs

Everything below holds for every value of the constants (any number of commands,
pids, entries and kills), from the named assumptions on the
constants in each module, which TLC evaluates in the runs.

**PidsStorage.** `TypeOK` is not inductive: that the file holds only pids depends on the
failed read not being followed by a write, and that `Truncate` cuts to a length in the
file depends on the count being fresh, which depends on mutual exclusion. The invariant
`IInv` is `TypeOK`, `SemInv` (the semaphore is 0 when a command is inside, and at most
one is) and, for each command, `CallInv`: what its variables are at each place, the
count equal to the file's length wherever it is used, the position of a `push_back` at
the end, the index of an `overwrite` in range and at its pid. `Init => IInv` and one
lemma per action give `Invariant`; from it follow `TypeCorrect`, `Exclusion`,
`FreshCount`, and by looking at one step `LostSemaphore` and `Stability`. `Refinement`
maps each step to a step of `PidRegistry` or to a stutter: `Write`, `Truncate`, the last
`Scan` and `Get` are the points where a call takes effect.

**StartHandshake.** `IInv` is `TypeOK` with `ParentInv` (what is done at each place of
the parent), `EndsInv` (which descriptors are open at each place of both), `GoInv` (a
`'g'` in the pipe or a child past its read means that the parent has finished its setup
and registered the pid) and `EndInv` (what the end of the child tells of the way there).
`Configured`, `Sigpipe` and `Foreground` are its consequences.

**Aucont.** `IInv` is `TypeOK` with, for each start and stop, what its place tells of
its container and its pid (`StartInv`, `StopInv`), for each list `ListInv`, and
`OwnersInv`. `ListComplete` speaks of finished lists only; what is kept before is
`Ahead`: a pid that is due and not yet printed is at no index the list has passed, and
the entry the list has just read is still in its place. It holds because a file that
changes only at its end (`EntriesStep`) can lose such an entry only by losing every
later one, the last place of that pid included, and then the pid is no longer due. In `OwnersInv` a start owns
an entry from `Push` until its own removal or its container's end; every removal takes
one entry whoever wrote it, so only their number is kept, and `Accounted` follows. The
kinds of commands are disjoint and the starts and stops are finite
(`ConstantsAssumption`).

**AucontExec.** `IInv` is `TypeOK` with `PidInv` (a container has one pid until it is
dead), `WasInv` (a container that exec has entered, or holds a descriptor of, has the
target pid unless it is dead), `NsInv` (the first `step` namespaces are the user
namespace's, the rest the host's) and `PlaceInv` (what is done at each place). The step
that matters is `SetNs`: `NsInv` is preserved only because the user namespace is first
and `SetnsAllowed` then refuses any other. `Unmixed` follows from `NsInv`; `Contained`
also needs `WasInv`, because what exec has entered is found by a pid that changes hands.

**BlockSums.** Two invariants, one on the other. `IInv` says that all items are between
the same two barriers (`Aligned`: the same loop and the same turn) and how `d` is bounded
at each place. Since an active item of a turn is at a multiple of `d`, and the cell left
of it is not, `RaceFree` follows, and that the indices stay in range (`TypeCorrect`).
`KInv` adds what the cells hold. In the first loop, `Has(i, D)`: cell `i` is the sum of
the `W` inputs up to its own, `W` the largest power of two below `D` that divides
`i + 1`. In the second, `DownData`: a cell at a multiple of `D` is the sum of all inputs
left of its part, the others are still what the first loop left, and a cell half a part
left of an active item is one or the other according to whether that item has stored it.
At `d = 1` every cell is an exclusive prefix sum; `StoredValue` turns it into the
inclusive one that `BlockScan!Store` writes, and `Refinement` follows. The sizes that
the local array admits are nine powers of two, so the arithmetic of `% d` is linear in
each case; the length and the input are arbitrary.

**CommandLine.** The words, the tables of conversions, the number of words and the width
of an `int` are arbitrary; only the descriptors are the program's. `ParserInv` says that
the place is one in the vector (`PlaceOK`), that the pointers of each element lead to
elements (`CellsOK`), that the elements of `options` stay first (`Heads`), and that an
argument that was stored was accepted (`ArgsAccepted`). `StoreFitsCount`, that the second
pass fits into what the first one counted, compares a state with states of an earlier
pass: the history `log` of the count is kept, and `Logged` says that the storing pass is
always at a logged place with as many options as were counted there. `ProgramInv` adds
what holds at each place of `main`; `LimitIsPercent`, `HostAddress`, `WholeCommand`,
`NullString` and `ErrorToldOnce` follow.

On top of it, `VectorInv` is about what the parse has made of the vector, however long.
`ListsInOrder` is local: the element of an option leads to that of the next option of its
index, and back. What it needs is that each list is a ring (`Ring`: the first element,
which is in `options`, and the last point around it with tagged pointers), because the
code finds the end of a list by following `prev` once from its first element; and that an
element belongs to one option (`OwnElement`), so that linking the new one changes two
pointers of one list. `WordsInv` says of a pass that stores that every word before its
place has options or is the argument of the word before it, and that the word of its place
has stored options only if the pass is behind the first of them; it is preserved because
every command has a descriptor for unknown options (`UnknownHasOne`), so that no word with
options is passed over without storing one. `ReportInv` counts: the loop has reported as
many options as there are unknown ones before the one it is at. `ListsFollowLine`,
`WordsHaveOnePart` and `UnknownAreReported` follow.

**Convolution.** `IInv` keeps what an item knows from the guard it passed on entering and
from the bounds of its loops. `RowMajor` and `LaterRow` are the arithmetic: an element of
a matrix has a place in the buffer, and two of them have different ones. `InsideBuffers`
and `RaceFree` follow, for all sizes of matrices, windows and groups. `WritesConvolution`
needs the content of the cells as well. The definition it compares with has no loops: the
products of a cell are those of the window's places that are inside the matrix
(`Covered`), and each stands at its rank in the order of the rows. `CInv` adds that the
buffers hold the file from when they are written (`Loaded`), that every item has returned
before the output is read (`Finished`), and that a cell's sum has, each at its rank, the
products of the covered places before the one its item is at, or all of them when the item
has returned (`Filling`). A step of an item either passes a place that is not covered, so
that this set stays as it was, or adds the product of the next rank; a step of another
item does not touch the cell.

**ScanHost.** The stack of calls grows to any depth, so `IInv` speaks of the call at each
depth `k`. Its buffers are functions of `k` alone (`InOf`, `OutOf`, `SubOf`: each call
works in the buffers of its caller and makes one more) and large enough (`Sized`). From
its first kernel to its second it keeps the sums within the blocks, on the host and in
its output (`Kept`), while the calls above it use other buffers. `Working` says what the
innermost call is about to use: what it was given to scan (`Scanned`, the last sums of
its caller's blocks), the sums within blocks, or prefix sums. The sums are a recursive
function; that it exists, that each sum is the one before and one more input (`SumStep`)
and that adjacent ranges add up (`SumSplit`) are lemmas. `BlockChain` is the arithmetic of
the recursion: the sum of the first block totals and of the rest of a block is the prefix
sum. `ScanIsPrefixSums`, `SumsAreKept` and `AccessesInBounds` follow for every length,
input and size of a block.

**Induction.** The library's induction theorems take an operator as a parameter, which
the provers cannot instantiate. Where a proof needs an induction over numbers it uses
`LeastElement`, that a set of naturals that is not empty has a least element, on the set
of counterexamples.

**Model-checked only.** Liveness (`ExitOrLost`, `FailedStartStopsChild`,
`EndsWithContainer`, `GroupEnds`, `Ends`), which the prover cannot do. Every invariant and
every other action or temporal property that a passing run checks is also proved.

## 5. Plan

Done: every module of section 2, and for each property of a passing run that is not a
liveness property its proof. Left: that the step `RunBlockSums` of `ScanHost` is what
`BlockScan` allows for all the groups of a launch, and that the atomic steps of `Aucont`
on the pids file are those of `PidRegistry`, as refinements; both are stated in the text
of section 2 and follow from no theorem.

### Not modelled

Scripts and Makefile (no state); what the shell commands of the setup write (I/O); what a
namespace isolates (the kernel); of the option parser, the layout of usage texts and the
modes that aucont does not use (2.7); the reading of the platform's devices and the
profiling output of the OpenCL programs.
