---------------------------- MODULE StartHandshake ----------------------------
(***************************************************************************)
(* aucont_start and the container it creates.  The parent clones a child   *)
(* into new namespaces, which blocks on a pipe; the parent maps ids, makes *)
(* cgroups and network, lists the pid, and writes 'g' to the pipe; the     *)
(* child then sets up its file system, host name and network and executes  *)
(* the command.  If anything fails the parent writes 's'.  Any step of     *)
(* Fallible may fail, and the processes of Killable may be killed at any   *)
(* point, the child also before it has read its byte.                      *)
(***************************************************************************)
EXTENDS Integers, Sequences

CONSTANTS Fallible,       \* the calls that may fail
          Killable,       \* subset of {"parent", "child"}
          CommandCodes    \* exit codes the container's command may end with

ASSUME ConstantsAssumption ==
    /\ Killable \subseteq {"parent", "child"}
    /\ CommandCodes \subseteq 0..255

VARIABLES args,     \* --net, --daemonize, and whether SIGPIPE was ignored by
                    \* the program that ran aucont
          ppc,      \* where aucont_start is
          pdone,    \* how many of its setup steps are done
          cpc,      \* where container_main is
          cdone,    \* how many of its setup steps are done
          pipe,     \* the bytes in the pipe
          ends,     \* the open descriptors of it, of the (p)arent and (c)hild
          storage,  \* the calls made to pids_storage for the pid
          status,   \* what waitpid tells of the child
          outcome   \* how the parent ended

vars == <<args, ppc, pdone, cpc, cdone, pipe, ends, storage, status, outcome>>

(***************************************************************************)
(* The two programs of setup steps, each a command or a system call whose  *)
(* result is checked.                                                      *)
(***************************************************************************)
ParentSteps(a) ==
    <<"setgroups", "uid_map", "gid_map", "mount_cgroups", "mkdir_cgroup",
      "cpu_period", "cpu_quota", "cgroup_tasks">>
    \o (IF a.net THEN <<"veth_add", "veth_move", "veth_up", "host_addr">>
        ELSE <<>>)
    \o <<"open_storage">>

ChildSteps(a) ==
    <<"mount_proc", "mount_tmp", "mount_sys", "chdir", "mkdir_old_root",
      "bind_image", "pivot_root", "umount_old_root", "sethostname">>
    \o (IF a.net THEN <<"lo_up", "veth_peer_up", "cont_addr">> ELSE <<>>)
    \o (IF a.daemonize THEN <<"setsid">> ELSE <<>>)

ParentReady == pdone = Len(ParentSteps(args))
ChildReady == cdone = Len(ChildSteps(args))

(***************************************************************************)
(* Exit statuses.  An int returned from main or container_main is reduced  *)
(* to 8 bits; waitpid gives the code in the second byte, the signal in the *)
(* first.                                                                  *)
(***************************************************************************)
GO_COMMAND_ERROR == 1
CLOSE_PIPE_ERROR == 2
SETHOSTNAME_ERROR == 3
EXECUTE_COMMAND_ERROR == 4
EXCEPTION_OCCURED_ERROR == -4

SIGPIPE == 13
SIGKILL == 9

NoStatus == [code |-> 0, sig |-> 0]
Exited(n) == [code |-> n % 256, sig |-> 0]
Killed(s) == [code |-> 0, sig |-> s]
WaitStatus(s) == s.code * 256 + s.sig

Alive == cpc \notin {"none", "ended"}

Init ==
    /\ args \in [net : BOOLEAN, daemonize : BOOLEAN, nosigpipe : BOOLEAN]
    /\ ppc = "pipe" /\ pdone = 0
    /\ cpc = "none" /\ cdone = 0
    /\ pipe = <<>> /\ ends = {}
    /\ storage = {}
    /\ status = NoStatus
    /\ outcome = NoStatus

(***************************************************************************)
(* The parent.                                                             *)
(***************************************************************************)
\* The process is gone, and so are its descriptors.
ParentGone(s) ==
    /\ ppc' = "gone"
    /\ outcome' = s
    /\ ends' = ends \ {"p_read", "p_write"}

\* Where a failure of the call leads.
OnFailure(call) == IF call \in Fallible THEN {"catch"} ELSE {}

Pipe ==
    /\ ppc = "pipe"
    /\ \/ ppc' = "clone" /\ ends' = {"p_read", "p_write"}
       \/ ppc' \in OnFailure("pipe") /\ UNCHANGED ends
    /\ UNCHANGED <<args, pdone, cpc, cdone, pipe, storage, status, outcome>>

Clone ==
    /\ ppc = "clone"
    /\ \/ /\ ppc' = "close_read" /\ cpc' = "close_write"
          /\ ends' = ends \cup {"c_read", "c_write"}
       \/ ppc' \in OnFailure("clone") /\ UNCHANGED <<cpc, ends>>
    /\ UNCHANGED <<args, pdone, cdone, pipe, storage, status, outcome>>

CloseRead ==
    /\ ppc = "close_read"
    /\ ppc' \in {"setup"} \cup OnFailure("close_read")
    /\ ends' = ends \ {"p_read"}
    /\ UNCHANGED <<args, pdone, cpc, cdone, pipe, storage, status, outcome>>

ParentSetup ==
    /\ ppc = "setup" /\ ~ParentReady
    /\ \/ pdone' = pdone + 1 /\ UNCHANGED ppc
       \/ ppc' \in OnFailure(ParentSteps(args)[pdone + 1]) /\ UNCHANGED pdone
    /\ UNCHANGED <<args, cpc, cdone, pipe, ends, storage, status, outcome>>

Push ==
    /\ ppc = "setup" /\ ParentReady
    /\ \/ storage' = storage \cup {"push_back"} /\ ppc' = "write_go"
       \/ ppc' \in OnFailure("push_back") /\ UNCHANGED storage
    /\ UNCHANGED <<args, pdone, cpc, cdone, pipe, ends, status, outcome>>

\* write(pipe[1], b, 1): without a reader the kernel sends SIGPIPE, which
\* nothing handles, or, if the signal is ignored, the call fails.
WriteByte(b, next, failed) ==
    LET readers == ends \cap {"p_read", "c_read"}
    IN  \/ /\ readers # {}
           /\ pipe' = Append(pipe, b)
           /\ ppc' = next
           /\ UNCHANGED <<ends, outcome>>
        \/ /\ readers = {} /\ ~args.nosigpipe
           /\ ParentGone(Killed(SIGPIPE))
           /\ UNCHANGED pipe
        \/ /\ readers = {} /\ args.nosigpipe
           /\ ppc' = failed
           /\ UNCHANGED <<pipe, ends, outcome>>

WriteGo ==
    /\ ppc = "write_go"
    /\ WriteByte("g", "close_write", "catch")
    /\ UNCHANGED <<args, pdone, cpc, cdone, storage, status>>

\* Mutant: a close that fails leaves the end open, for the handler to write.
CloseWriteLeaves ==
    /\ ppc = "close_write"
    /\ \/ args.daemonize /\ ParentGone(Exited(0))
       \/ /\ ~args.daemonize
          /\ ppc' = "wait" /\ ends' = ends \ {"p_write"}
          /\ UNCHANGED outcome
       \/ /\ ppc' \in OnFailure("close_write")
          /\ UNCHANGED <<ends, outcome>>
    /\ UNCHANGED <<args, pdone, cpc, cdone, pipe, storage, status>>

\* The write end is closed; a daemonized start prints the pid and returns 0.
CloseWrite ==
    /\ ppc = "close_write"
    /\ \/ args.daemonize /\ ParentGone(Exited(0))
       \/ /\ ppc' \in (IF args.daemonize THEN {} ELSE {"wait"})
                       \cup OnFailure("close_write")
          /\ ends' = ends \ {"p_write"}
          /\ UNCHANGED outcome
    /\ UNCHANGED <<args, pdone, cpc, cdone, pipe, storage, status>>

\* Mutant: the child is not waited for.
WaitNoHang ==
    /\ ppc = "wait"
    /\ ppc' = "remove"
    /\ UNCHANGED <<args, pdone, cpc, cdone, pipe, ends, storage, status, outcome>>

\* waitpid
Wait ==
    /\ ppc = "wait" /\ cpc = "ended"
    /\ ppc' = "remove"
    /\ UNCHANGED <<args, pdone, cpc, cdone, pipe, ends, storage, status, outcome>>

\* The number the debug output calls the exit code, and main returns.
Reported == WaitStatus(status)

\* remove_by_pid, and the return from main.
RemoveAndReturn ==
    /\ ppc = "remove"
    /\ \/ /\ storage' = storage \cup {"remove_by_pid"}
          /\ ParentGone(Exited(Reported))
       \/ /\ ppc' \in OnFailure("remove_by_pid")
          /\ UNCHANGED <<ends, storage, outcome>>
    /\ UNCHANGED <<args, pdone, cpc, cdone, pipe, status>>

\* The handler: write 's' if there is a pipe (to a closed descriptor that has
\* no effect, and its result is not looked at) ...
CatchWrite ==
    /\ ppc = "catch"
    /\ IF "p_write" \in ends
       THEN WriteByte("s", "rethrown", "rethrown")
       ELSE ppc' = "rethrown" /\ UNCHANGED <<pipe, ends, outcome>>
    /\ UNCHANGED <<args, pdone, cpc, cdone, storage, status>>

\* ... close it, and return.
CatchReturn ==
    /\ ppc = "rethrown"
    /\ ParentGone(Exited(EXCEPTION_OCCURED_ERROR))
    /\ UNCHANGED <<args, pdone, cpc, cdone, pipe, storage, status>>

KillParent ==
    /\ "parent" \in Killable
    /\ ppc # "gone"
    /\ ParentGone(Killed(SIGKILL))
    /\ UNCHANGED <<args, pdone, cpc, cdone, pipe, storage, status>>

(***************************************************************************)
(* The child.                                                              *)
(***************************************************************************)
ChildEnds(s) ==
    /\ cpc' = "ended"
    /\ status' = s
    /\ ends' = ends \ {"c_read", "c_write"}

\* Mutant: the child keeps its copy of the write end open.
KeepWriteEnd ==
    /\ cpc = "close_write"
    /\ cpc' = "read" /\ UNCHANGED <<ends, status>>
    /\ UNCHANGED <<args, ppc, pdone, cdone, pipe, storage, outcome>>

ChildCloseWrite ==
    /\ cpc = "close_write"
    /\ \/ cpc' = "read" /\ ends' = ends \ {"c_write"} /\ UNCHANGED status
       \/ "child_close" \in Fallible /\ ChildEnds(Exited(CLOSE_PIPE_ERROR))
    /\ UNCHANGED <<args, ppc, pdone, cdone, pipe, storage, outcome>>

\* Mutant: what is on the stack looks like 'g'.
StackByteGo == "g"

\* The unassigned `char go`.  The child runs on a static array that is all
\* zeros, and nothing is called before read() that reaches this deep.
StackByte == "0"

\* At the end of the file read() returns 0, not -1, and assigns nothing.
EndOfFile == pipe = <<>> /\ ends \cap {"p_write", "c_write"} = {}

\* Mutant: the read does not block.
ReadNoWait ==
    LET go == IF pipe = <<>> THEN StackByte ELSE Head(pipe)
    IN  /\ cpc = "read"
        /\ pipe' = IF pipe = <<>> THEN pipe ELSE Tail(pipe)
        /\ IF go = "g"
           THEN cpc' = "setup" /\ UNCHANGED <<ends, status>>
           ELSE ChildEnds(Exited(GO_COMMAND_ERROR))
        /\ UNCHANGED <<args, ppc, pdone, cdone, storage, outcome>>

ReadGo ==
    LET go == IF pipe = <<>> THEN StackByte ELSE Head(pipe)
    IN  /\ cpc = "read"
        /\ pipe # <<>> \/ EndOfFile
        /\ pipe' = IF pipe = <<>> THEN pipe ELSE Tail(pipe)
        /\ IF go = "g"
           THEN cpc' = "setup" /\ UNCHANGED <<ends, status>>
           ELSE ChildEnds(Exited(GO_COMMAND_ERROR))
        /\ UNCHANGED <<args, ppc, pdone, cdone, storage, outcome>>

\* A failed sethostname returns its own code, every other failure throws.
ChildSetup ==
    /\ cpc = "setup" /\ ~ChildReady
    /\ LET step == ChildSteps(args)[cdone + 1]
       IN  \/ cdone' = cdone + 1 /\ UNCHANGED <<cpc, ends, status>>
           \/ /\ step \in Fallible
              /\ ChildEnds(Exited(IF step = "sethostname" THEN SETHOSTNAME_ERROR
                                  ELSE EXCEPTION_OCCURED_ERROR))
              /\ UNCHANGED cdone
    /\ UNCHANGED <<args, ppc, pdone, pipe, storage, outcome>>

Execute ==
    /\ cpc = "setup" /\ ChildReady
    /\ \/ cpc' = "running" /\ UNCHANGED <<ends, status>>
       \/ "execv" \in Fallible /\ ChildEnds(Exited(EXECUTE_COMMAND_ERROR))
    /\ UNCHANGED <<args, ppc, pdone, cdone, pipe, storage, outcome>>

\* The command ends; nothing obliges it to.
CommandEnds ==
    /\ cpc = "running"
    /\ \E n \in CommandCodes : ChildEnds(Exited(n))
    /\ UNCHANGED <<args, ppc, pdone, cdone, pipe, storage, outcome>>

KillChild ==
    /\ "child" \in Killable
    /\ Alive
    /\ ChildEnds(Killed(SIGKILL))
    /\ UNCHANGED <<args, ppc, pdone, cdone, pipe, storage, outcome>>

ParentNext ==
    \/ Pipe \/ Clone \/ CloseRead \/ ParentSetup \/ Push \/ WriteGo
    \/ CloseWrite \/ Wait \/ RemoveAndReturn \/ CatchWrite \/ CatchReturn

ChildNext == ChildCloseWrite \/ ReadGo \/ ChildSetup \/ Execute

Finished == ppc = "gone" /\ ~Alive /\ UNCHANGED vars

Next ==
    \/ ParentNext \/ ChildNext \/ CommandEnds
    \/ KillParent \/ KillChild \/ Finished

Spec == Init /\ [][Next]_vars

\* The parent may wait for ever, for a semaphore or for the container.
FairSpec == Spec /\ WF_vars(ChildNext)

-----------------------------------------------------------------------------
(***************************************************************************)
(* Properties.                                                             *)
(***************************************************************************)
ExitStatuses == [code : 0..255, sig : {0, SIGPIPE, SIGKILL}]

\* The values of the variables.  The pipe never holds two bytes.
TypeOK ==
    /\ args \in [net : BOOLEAN, daemonize : BOOLEAN, nosigpipe : BOOLEAN]
    /\ ppc \in {"pipe", "clone", "close_read", "setup", "write_go", "close_write",
                "wait", "remove", "catch", "rethrown", "gone"}
    /\ pdone \in 0..Len(ParentSteps(args))
    /\ cpc \in {"none", "close_write", "read", "setup", "running", "ended"}
    /\ cdone \in 0..Len(ChildSteps(args))
    /\ pipe \in {<<>>, <<"g">>, <<"s">>}
    /\ ends \subseteq {"p_read", "p_write", "c_read", "c_write"}
    /\ storage \subseteq {"push_back", "remove_by_pid"}
    /\ status \in ExitStatuses
    /\ outcome \in ExitStatuses

\* The container's command runs only in a container whose ids, cgroup, network
\* and pid entry the parent has completed and whose own setup is complete,
\* wherever the parent failed or was killed.
CommandRunsConfigured ==
    cpc = "running" => ParentReady /\ ChildReady /\ storage # {}

\* A start that ended, failed or was killed, without giving the child its 'g'
\* leaves none behind: the child neither runs nor waits for a byte for ever.
\* (aucont.cpp:418, "to stop cloned process")
FailedStartStopsChild ==
    (ppc = "gone" /\ cpc \in {"close_write", "read"} /\ pipe # <<"g">>)
        ~> cpc = "ended"

\* A start is ended by SIGPIPE, without its handler and maybe with the pid
\* still listed, only if its child was killed or could not close its pipe end:
\* no other failure of the start or of the child leads there.
SigpipeOnlyAfterKill ==
    outcome.sig = SIGPIPE => \/ status.sig = SIGKILL
                             \/ status = Exited(CLOSE_PIPE_ERROR)

\* A start without --daemonize that ends by itself, and not in its handler,
\* has seen its container end and taken a pid out of the storage.
ForegroundWaits ==
    ppc = "gone" /\ ~args.daemonize /\ outcome.sig = 0
        /\ outcome # Exited(EXCEPTION_OCCURED_ERROR) =>
            cpc = "ended" /\ storage = {"push_back", "remove_by_pid"}

\* What the start returns to the shell, for a container that exited, is the
\* container's exit code.  (aucont.cpp:410 calls the number "Exit code")
ExitCodeReturned ==
    storage = {"push_back", "remove_by_pid"} /\ status.sig = 0 =>
        Reported = status.code
===============================================================================
