------------------------ MODULE StartHandshake_proofs ------------------------
(***************************************************************************)
(* Theorems about aucont_start and container_main, for every set of calls  *)
(* that fail, every kill and every exit code of the command.               *)
(***************************************************************************)
EXTENDS StartHandshake, SequenceTheorems, TLAPS

(***************************************************************************)
(* The inductive invariant: how far the parent is tells what is in the     *)
(* pipe and who can still read or write it.                                *)
(***************************************************************************)
Before == {"pipe", "clone", "close_read", "setup", "write_go"}

\* The parent has yet to write 'g' or 's'.
Unwritten == ppc \in Before \/ (ppc = "catch" /\ "p_write" \in ends)

ParentInv ==
    /\ ppc \in {"pipe", "clone", "close_read", "setup"} => storage = {}
    /\ ppc \in {"write_go", "close_write", "wait", "remove"} =>
          ParentReady /\ storage = {"push_back"}
    /\ ppc = "remove" => cpc = "ended"
    /\ ppc \in {"pipe", "clone"} => cpc = "none"
    /\ Unwritten => pipe = <<>>
    /\ ppc # "gone" => outcome = NoStatus

\* The descriptors that are open: until the parent has written, the pipe has
\* a reader unless the child has ended, and the write end is the parent's.
EndsInv ==
    /\ ppc = "pipe" => ends = {}
    /\ ppc \in Before \ {"pipe"} => "p_write" \in ends
    /\ ppc = "clone" => "p_read" \in ends
    /\ ppc \in {"wait", "remove"} => "p_write" \notin ends
    /\ ppc \in {"close_read", "setup", "write_go"} => cpc # "none"
    /\ Unwritten /\ "p_write" \in ends /\ cpc = "none" => "p_read" \in ends
    /\ Alive => "c_read" \in ends

\* A child that is past its read got 'g', and the parent had listed it.
GoInv ==
    /\ pipe = <<"g">> \/ cpc \in {"setup", "running"} =>
          ~Unwritten /\ ParentReady /\ storage # {}
    /\ cpc = "running" => ChildReady

\* A child that has ended before the parent wrote has ended abnormally.
EndInv ==
    /\ cpc # "ended" => status = NoStatus
    /\ cpc = "ended" /\ Unwritten =>
          status.sig = SIGKILL \/ status = Exited(CLOSE_PIPE_ERROR)

IInv ==
    /\ TypeOK /\ ParentInv /\ EndsInv /\ GoInv /\ EndInv
    /\ SigpipeOnlyAfterKill /\ ForegroundWaits

\* Both programs are finite.
LEMMA Programs ==
    ASSUME NEW a
    PROVE  Len(ParentSteps(a)) \in Nat /\ Len(ChildSteps(a)) \in Nat
  <1>1. ASSUME NEW S,
               {"setgroups", "uid_map", "gid_map", "mount_cgroups",
                "mkdir_cgroup", "cpu_period", "cpu_quota", "cgroup_tasks",
                "veth_add", "veth_move", "veth_up", "host_addr",
                "open_storage"} \subseteq S
        PROVE  Len(ParentSteps(a)) \in Nat
    <2>1. <<"setgroups", "uid_map", "gid_map", "mount_cgroups", "mkdir_cgroup",
            "cpu_period", "cpu_quota", "cgroup_tasks">> \in Seq(S)
      BY <1>1
    <2>2. <<"veth_add", "veth_move", "veth_up", "host_addr">> \in Seq(S)
      BY <1>1
    <2>3. <<"open_storage">> \in Seq(S) /\ <<>> \in Seq(S)
      BY <1>1
    <2>4. ParentSteps(a) \in Seq(S)
      BY <2>1, <2>2, <2>3, ConcatProperties DEF ParentSteps
    <2>5. QED
      BY <2>4
  <1>2. ASSUME NEW S,
               {"mount_proc", "mount_tmp", "mount_sys", "chdir",
                "mkdir_old_root", "bind_image", "pivot_root", "umount_old_root",
                "sethostname", "lo_up", "veth_peer_up", "cont_addr",
                "setsid"} \subseteq S
        PROVE  Len(ChildSteps(a)) \in Nat
    <2>1. <<"mount_proc", "mount_tmp", "mount_sys", "chdir", "mkdir_old_root",
            "bind_image", "pivot_root", "umount_old_root", "sethostname">>
          \in Seq(S)
      BY <1>2
    <2>2. <<"lo_up", "veth_peer_up", "cont_addr">> \in Seq(S)
      BY <1>2
    <2>3. <<"setsid">> \in Seq(S) /\ <<>> \in Seq(S)
      BY <1>2
    <2>4. ChildSteps(a) \in Seq(S)
      BY <2>1, <2>2, <2>3, ConcatProperties DEF ChildSteps
    <2>5. QED
      BY <2>4
  <1>3. QED
    BY <1>1, <1>2

\* The statuses that occur.
LEMMA Statuses ==
    /\ NoStatus \in ExitStatuses /\ NoStatus.sig = 0
    /\ \A n \in Int : Exited(n) \in ExitStatuses /\ Exited(n).sig = 0
    /\ Killed(SIGKILL) \in ExitStatuses /\ Killed(SIGKILL).sig = SIGKILL
    /\ Killed(SIGPIPE) \in ExitStatuses /\ Killed(SIGPIPE).sig = SIGPIPE
    /\ \A s \in ExitStatuses : WaitStatus(s) \in Int
    /\ Exited(CLOSE_PIPE_ERROR) # NoStatus
    /\ SIGKILL # 0 /\ SIGPIPE # 0 /\ SIGKILL # SIGPIPE
    /\ {GO_COMMAND_ERROR, CLOSE_PIPE_ERROR, SETHOSTNAME_ERROR,
        EXECUTE_COMMAND_ERROR, EXCEPTION_OCCURED_ERROR, 0} \subseteq Int
    /\ CommandCodes \subseteq Int
  BY ConstantsAssumption
     DEF NoStatus, Exited, Killed, ExitStatuses, SIGKILL, SIGPIPE, WaitStatus,
         GO_COMMAND_ERROR, CLOSE_PIPE_ERROR, SETHOSTNAME_ERROR,
         EXECUTE_COMMAND_ERROR, EXCEPTION_OCCURED_ERROR

\* What happens to the pipe.
LEMMA Bytes ==
    /\ Append(<<>>, "g") = <<"g">> /\ Append(<<>>, "s") = <<"s">>
    /\ Head(<<"g">>) = "g" /\ Head(<<"s">>) = "s"
    /\ Tail(<<"g">>) = <<>> /\ Tail(<<"s">>) = <<>>
    /\ <<"g">> # <<>> /\ <<"s">> # <<>> /\ <<"g">> # <<"s">>
  <1>1. Append(<<>>, "g") = <<"g">> /\ Append(<<>>, "s") = <<"s">>
    OBVIOUS
  <1>2. Head(<<"g">>) = "g" /\ Head(<<"s">>) = "s"
    OBVIOUS
  <1>3. Tail(<<"g">>) = <<>> /\ Tail(<<"s">>) = <<>>
    OBVIOUS
  <1>4. <<"g">> # <<>> /\ <<"s">> # <<>> /\ <<"g">> # <<"s">>
    OBVIOUS
  <1>5. QED
    BY <1>1, <1>2, <1>3, <1>4

LEMMA InitIInv == Init => IInv
  <1> SUFFICES ASSUME Init PROVE IInv
    OBVIOUS
  <1>1. 0 \in 0..Len(ParentSteps(args)) /\ 0 \in 0..Len(ChildSteps(args))
    BY Programs
  <1>2. NoStatus \in ExitStatuses /\ NoStatus.sig = 0 /\ SIGPIPE # 0
    BY Statuses
  <1>3. TypeOK
    BY <1>1, <1>2 DEF Init, TypeOK
  <1>4. ParentInv /\ EndsInv /\ GoInv /\ EndInv
    BY DEF Init, ParentInv, EndsInv, GoInv, EndInv, Unwritten, Before, Alive
  <1>5. SigpipeOnlyAfterKill /\ ForegroundWaits
    BY <1>2 DEF Init, SigpipeOnlyAfterKill, ForegroundWaits
  <1>6. QED
    BY <1>3, <1>4, <1>5 DEF IInv

(***************************************************************************)
(* Every action keeps the invariant.                                       *)
(***************************************************************************)
LEMMA PipeKeeps == IInv /\ Pipe => IInv'
  <1> SUFFICES ASSUME IInv, Pipe PROVE IInv'
    OBVIOUS
  <1> USE DEF Pipe, OnFailure
  <1>1. NoStatus.sig = 0 /\ SIGPIPE # 0
    BY Statuses
  <1>2. TypeOK'
    BY <1>1 DEF IInv, TypeOK
  <1>3. ParentInv' /\ EndsInv'
    BY <1>1 DEF IInv, TypeOK, ParentInv, EndsInv, ParentReady, Unwritten, Before, Alive
  <1>4. GoInv' /\ EndInv'
    BY <1>1 DEF IInv, TypeOK, ParentInv, EndsInv, GoInv, EndInv, ParentReady, ChildReady,
       Unwritten, Before, Alive
  <1>5. SigpipeOnlyAfterKill' /\ ForegroundWaits'
    BY <1>1 DEF IInv, TypeOK, ParentInv, EndsInv, GoInv, EndInv, SigpipeOnlyAfterKill,
       ForegroundWaits, Unwritten, Before, Alive
  <1>6. QED
    BY <1>2, <1>3, <1>4, <1>5 DEF IInv

LEMMA CloneKeeps == IInv /\ Clone => IInv'
  <1> SUFFICES ASSUME IInv, Clone PROVE IInv'
    OBVIOUS
  <1> USE DEF Clone, OnFailure
  <1>1. NoStatus.sig = 0 /\ SIGPIPE # 0
    BY Statuses
  <1>2. TypeOK'
    BY <1>1 DEF IInv, TypeOK
  <1>3. ParentInv' /\ EndsInv'
    BY <1>1 DEF IInv, TypeOK, ParentInv, EndsInv, ParentReady, Unwritten, Before, Alive
  <1>4. GoInv' /\ EndInv'
    BY <1>1 DEF IInv, TypeOK, ParentInv, EndsInv, GoInv, EndInv, ParentReady, ChildReady,
       Unwritten, Before, Alive
  <1>5. SigpipeOnlyAfterKill' /\ ForegroundWaits'
    BY <1>1 DEF IInv, TypeOK, ParentInv, EndsInv, GoInv, EndInv, SigpipeOnlyAfterKill,
       ForegroundWaits, Unwritten, Before, Alive
  <1>6. QED
    BY <1>2, <1>3, <1>4, <1>5 DEF IInv

LEMMA CloseReadKeeps == IInv /\ CloseRead => IInv'
  <1> SUFFICES ASSUME IInv, CloseRead PROVE IInv'
    OBVIOUS
  <1> USE DEF CloseRead, OnFailure
  <1>1. NoStatus.sig = 0 /\ SIGPIPE # 0
    BY Statuses
  <1>2. TypeOK'
    BY <1>1 DEF IInv, TypeOK
  <1>3. ParentInv' /\ EndsInv'
    BY <1>1 DEF IInv, TypeOK, ParentInv, EndsInv, ParentReady, Unwritten, Before, Alive
  <1>4. GoInv' /\ EndInv'
    BY <1>1 DEF IInv, TypeOK, ParentInv, EndsInv, GoInv, EndInv, ParentReady, ChildReady,
       Unwritten, Before, Alive
  <1>5. SigpipeOnlyAfterKill' /\ ForegroundWaits'
    BY <1>1 DEF IInv, TypeOK, ParentInv, EndsInv, GoInv, EndInv, SigpipeOnlyAfterKill,
       ForegroundWaits, Unwritten, Before, Alive
  <1>6. QED
    BY <1>2, <1>3, <1>4, <1>5 DEF IInv

LEMMA ParentSetupKeeps == IInv /\ ParentSetup => IInv'
  <1> SUFFICES ASSUME IInv, ParentSetup PROVE IInv'
    OBVIOUS
  <1> USE DEF ParentSetup, OnFailure
  <1>1. NoStatus.sig = 0 /\ SIGPIPE # 0
    BY Statuses
  <1>2. Len(ParentSteps(args)) \in Nat /\ Len(ChildSteps(args)) \in Nat
    BY Programs
  <1>3. ~ParentReady => pdone < Len(ParentSteps(args))
    BY <1>2 DEF IInv, TypeOK, ParentReady
  <1>4. TypeOK'
    BY <1>1, <1>2, <1>3 DEF IInv, TypeOK
  <1>5. ParentInv' /\ EndsInv'
    BY <1>1, <1>2, <1>3 DEF IInv, TypeOK, ParentInv, EndsInv, ParentReady, Unwritten, Before, Alive
  <1>6. GoInv' /\ EndInv'
    BY <1>1, <1>2, <1>3 DEF IInv, TypeOK, ParentInv, EndsInv, GoInv, EndInv, ParentReady, ChildReady,
       Unwritten, Before, Alive
  <1>7. SigpipeOnlyAfterKill' /\ ForegroundWaits'
    BY <1>1, <1>2, <1>3 DEF IInv, TypeOK, ParentInv, EndsInv, GoInv, EndInv, SigpipeOnlyAfterKill,
       ForegroundWaits, Unwritten, Before, Alive
  <1>8. QED
    BY <1>4, <1>5, <1>6, <1>7 DEF IInv

LEMMA PushKeeps == IInv /\ Push => IInv'
  <1> SUFFICES ASSUME IInv, Push PROVE IInv'
    OBVIOUS
  <1> USE DEF Push, OnFailure
  <1>1. NoStatus.sig = 0 /\ SIGPIPE # 0
    BY Statuses
  <1>2. TypeOK'
    BY <1>1 DEF IInv, TypeOK
  <1>3. ParentInv' /\ EndsInv'
    BY <1>1 DEF IInv, TypeOK, ParentInv, EndsInv, ParentReady, Unwritten, Before, Alive
  <1>4. GoInv' /\ EndInv'
    BY <1>1 DEF IInv, TypeOK, ParentInv, EndsInv, GoInv, EndInv, ParentReady, ChildReady,
       Unwritten, Before, Alive
  <1>5. SigpipeOnlyAfterKill' /\ ForegroundWaits'
    BY <1>1 DEF IInv, TypeOK, ParentInv, EndsInv, GoInv, EndInv, SigpipeOnlyAfterKill,
       ForegroundWaits, Unwritten, Before, Alive
  <1>6. QED
    BY <1>2, <1>3, <1>4, <1>5 DEF IInv

LEMMA WriteGoKeeps == IInv /\ WriteGo => IInv'
  <1> SUFFICES ASSUME IInv, WriteGo PROVE IInv'
    OBVIOUS
  <1> USE DEF WriteGo, WriteByte, ParentGone
  <1>1. Killed(SIGPIPE) \in ExitStatuses /\ Killed(SIGPIPE).sig = SIGPIPE /\ SIGKILL # 0 /\ SIGPIPE # 0
        /\ SIGKILL # SIGPIPE /\ NoStatus.sig = 0 /\ Exited(CLOSE_PIPE_ERROR) # NoStatus
    BY Statuses
  <1>2. /\ Append(<<>>, "g") = <<"g">> /\ Append(<<>>, "s") = <<"s">>
        /\ <<"g">> # <<>> /\ <<"s">> # <<>> /\ <<"g">> # <<"s">>
    BY Bytes
  <1>3. TypeOK'
    BY <1>1, <1>2 DEF IInv, TypeOK, ParentInv, EndsInv, Unwritten, Before
  <1>4. ParentInv' /\ EndsInv'
    BY <1>1, <1>2 DEF IInv, TypeOK, ParentInv, EndsInv, ParentReady, Unwritten, Before, Alive
  <1>5. GoInv' /\ EndInv'
    BY <1>1, <1>2 DEF IInv, TypeOK, ParentInv, EndsInv, GoInv, EndInv, ParentReady, ChildReady,
       Unwritten, Before, Alive
  <1>6. SigpipeOnlyAfterKill' /\ ForegroundWaits'
    BY <1>1, <1>2 DEF IInv, TypeOK, ParentInv, EndsInv, GoInv, EndInv, SigpipeOnlyAfterKill,
       ForegroundWaits, Unwritten, Before, Alive
  <1>7. QED
    BY <1>3, <1>4, <1>5, <1>6 DEF IInv

LEMMA CloseWriteKeeps == IInv /\ CloseWrite => IInv'
  <1> SUFFICES ASSUME IInv, CloseWrite PROVE IInv'
    OBVIOUS
  <1> USE DEF CloseWrite, OnFailure, ParentGone
  <1>1. Exited(0) \in ExitStatuses /\ Exited(0).sig = 0 /\ SIGPIPE # 0 /\ NoStatus.sig = 0
    BY Statuses
  <1>2. TypeOK'
    BY <1>1 DEF IInv, TypeOK
  <1>3. ParentInv' /\ EndsInv'
    BY <1>1 DEF IInv, TypeOK, ParentInv, EndsInv, ParentReady, Unwritten, Before, Alive
  <1>4. GoInv' /\ EndInv'
    BY <1>1 DEF IInv, TypeOK, ParentInv, EndsInv, GoInv, EndInv, ParentReady, ChildReady,
       Unwritten, Before, Alive
  <1>5. SigpipeOnlyAfterKill' /\ ForegroundWaits'
    BY <1>1 DEF IInv, TypeOK, ParentInv, EndsInv, GoInv, EndInv, SigpipeOnlyAfterKill,
       ForegroundWaits, Unwritten, Before, Alive
  <1>6. QED
    BY <1>2, <1>3, <1>4, <1>5 DEF IInv

LEMMA WaitKeeps == IInv /\ Wait => IInv'
  <1> SUFFICES ASSUME IInv, Wait PROVE IInv'
    OBVIOUS
  <1> USE DEF Wait
  <1>1. NoStatus.sig = 0 /\ SIGPIPE # 0
    BY Statuses
  <1>2. TypeOK'
    BY <1>1 DEF IInv, TypeOK
  <1>3. ParentInv' /\ EndsInv'
    BY <1>1 DEF IInv, TypeOK, ParentInv, EndsInv, ParentReady, Unwritten, Before, Alive
  <1>4. GoInv' /\ EndInv'
    BY <1>1 DEF IInv, TypeOK, ParentInv, EndsInv, GoInv, EndInv, ParentReady, ChildReady,
       Unwritten, Before, Alive
  <1>5. SigpipeOnlyAfterKill' /\ ForegroundWaits'
    BY <1>1 DEF IInv, TypeOK, ParentInv, EndsInv, GoInv, EndInv, SigpipeOnlyAfterKill,
       ForegroundWaits, Unwritten, Before, Alive
  <1>6. QED
    BY <1>2, <1>3, <1>4, <1>5 DEF IInv

LEMMA RemoveAndReturnKeeps == IInv /\ RemoveAndReturn => IInv'
  <1> SUFFICES ASSUME IInv, RemoveAndReturn PROVE IInv'
    OBVIOUS
  <1> USE DEF RemoveAndReturn, OnFailure, ParentGone, Reported
  <1>1. WaitStatus(status) \in Int
    BY Statuses DEF IInv, TypeOK
  <1>2. /\ Exited(WaitStatus(status)) \in ExitStatuses
        /\ Exited(WaitStatus(status)).sig = 0 /\ SIGPIPE # 0 /\ NoStatus.sig = 0
    BY <1>1, Statuses
  <1>3. TypeOK'
    BY <1>1, <1>2 DEF IInv, TypeOK
  <1>4. ParentInv' /\ EndsInv'
    BY <1>1, <1>2 DEF IInv, TypeOK, ParentInv, EndsInv, ParentReady, Unwritten, Before, Alive
  <1>5. GoInv' /\ EndInv'
    BY <1>1, <1>2 DEF IInv, TypeOK, ParentInv, EndsInv, GoInv, EndInv, ParentReady, ChildReady,
       Unwritten, Before, Alive
  <1>6. SigpipeOnlyAfterKill' /\ ForegroundWaits'
    BY <1>1, <1>2 DEF IInv, TypeOK, ParentInv, EndsInv, GoInv, EndInv, SigpipeOnlyAfterKill,
       ForegroundWaits, Unwritten, Before, Alive
  <1>7. QED
    BY <1>3, <1>4, <1>5, <1>6 DEF IInv

LEMMA CatchWriteKeeps == IInv /\ CatchWrite => IInv'
  <1> SUFFICES ASSUME IInv, CatchWrite PROVE IInv'
    OBVIOUS
  <1> USE DEF CatchWrite, WriteByte, ParentGone
  <1>1. Killed(SIGPIPE) \in ExitStatuses /\ Killed(SIGPIPE).sig = SIGPIPE /\ SIGKILL # 0 /\ SIGPIPE # 0
        /\ SIGKILL # SIGPIPE /\ NoStatus.sig = 0 /\ Exited(CLOSE_PIPE_ERROR) # NoStatus
    BY Statuses
  <1>2. /\ Append(<<>>, "g") = <<"g">> /\ Append(<<>>, "s") = <<"s">>
        /\ <<"g">> # <<>> /\ <<"s">> # <<>> /\ <<"g">> # <<"s">>
    BY Bytes
  <1>3. TypeOK'
    BY <1>1, <1>2 DEF IInv, TypeOK, ParentInv, EndsInv, Unwritten, Before
  <1>4. ParentInv' /\ EndsInv'
    BY <1>1, <1>2 DEF IInv, TypeOK, ParentInv, EndsInv, ParentReady, Unwritten, Before, Alive
  <1>5. GoInv' /\ EndInv'
    BY <1>1, <1>2 DEF IInv, TypeOK, ParentInv, EndsInv, GoInv, EndInv, ParentReady, ChildReady,
       Unwritten, Before, Alive
  <1>6. SigpipeOnlyAfterKill' /\ ForegroundWaits'
    BY <1>1, <1>2 DEF IInv, TypeOK, ParentInv, EndsInv, GoInv, EndInv, SigpipeOnlyAfterKill,
       ForegroundWaits, Unwritten, Before, Alive
  <1>7. QED
    BY <1>3, <1>4, <1>5, <1>6 DEF IInv

LEMMA CatchReturnKeeps == IInv /\ CatchReturn => IInv'
  <1> SUFFICES ASSUME IInv, CatchReturn PROVE IInv'
    OBVIOUS
  <1> USE DEF CatchReturn, ParentGone
  <1>1. EXCEPTION_OCCURED_ERROR \in Int
    BY Statuses
  <1>2. /\ Exited(EXCEPTION_OCCURED_ERROR) \in ExitStatuses
        /\ Exited(EXCEPTION_OCCURED_ERROR).sig = 0 /\ SIGPIPE # 0 /\ NoStatus.sig = 0
    BY <1>1, Statuses
  <1>3. TypeOK'
    BY <1>1, <1>2 DEF IInv, TypeOK
  <1>4. ParentInv' /\ EndsInv'
    BY <1>1, <1>2 DEF IInv, TypeOK, ParentInv, EndsInv, ParentReady, Unwritten, Before, Alive
  <1>5. GoInv' /\ EndInv'
    BY <1>1, <1>2 DEF IInv, TypeOK, ParentInv, EndsInv, GoInv, EndInv, ParentReady, ChildReady,
       Unwritten, Before, Alive
  <1>6. SigpipeOnlyAfterKill' /\ ForegroundWaits'
    BY <1>1, <1>2 DEF IInv, TypeOK, ParentInv, EndsInv, GoInv, EndInv, SigpipeOnlyAfterKill,
       ForegroundWaits, Unwritten, Before, Alive
  <1>7. QED
    BY <1>3, <1>4, <1>5, <1>6 DEF IInv

LEMMA KillParentKeeps == IInv /\ KillParent => IInv'
  <1> SUFFICES ASSUME IInv, KillParent PROVE IInv'
    OBVIOUS
  <1> USE DEF KillParent, ParentGone
  <1>1. Killed(SIGKILL) \in ExitStatuses /\ Killed(SIGKILL).sig = SIGKILL /\ SIGKILL # 0 /\ SIGPIPE # 0
        /\ SIGKILL # SIGPIPE /\ NoStatus.sig = 0 /\ Exited(CLOSE_PIPE_ERROR) # NoStatus
    BY Statuses
  <1>2. TypeOK'
    BY <1>1 DEF IInv, TypeOK
  <1>3. ParentInv' /\ EndsInv'
    BY <1>1 DEF IInv, TypeOK, ParentInv, EndsInv, ParentReady, Unwritten, Before, Alive
  <1>4. GoInv' /\ EndInv'
    BY <1>1 DEF IInv, TypeOK, ParentInv, EndsInv, GoInv, EndInv, ParentReady, ChildReady,
       Unwritten, Before, Alive
  <1>5. SigpipeOnlyAfterKill' /\ ForegroundWaits'
    BY <1>1 DEF IInv, TypeOK, ParentInv, EndsInv, GoInv, EndInv, SigpipeOnlyAfterKill,
       ForegroundWaits, Unwritten, Before, Alive
  <1>6. QED
    BY <1>2, <1>3, <1>4, <1>5 DEF IInv

LEMMA ChildCloseWriteKeeps == IInv /\ ChildCloseWrite => IInv'
  <1> SUFFICES ASSUME IInv, ChildCloseWrite PROVE IInv'
    OBVIOUS
  <1> USE DEF ChildCloseWrite, ChildEnds
  <1>1. CLOSE_PIPE_ERROR \in Int
    BY Statuses
  <1>2. /\ Exited(CLOSE_PIPE_ERROR) \in ExitStatuses
        /\ Exited(CLOSE_PIPE_ERROR).sig = 0 /\ SIGPIPE # 0 /\ SIGKILL # 0 /\ NoStatus.sig = 0
        /\ Exited(CLOSE_PIPE_ERROR) # NoStatus
    BY <1>1, Statuses
  <1>3. TypeOK'
    BY <1>1, <1>2 DEF IInv, TypeOK
  <1>4. ParentInv' /\ EndsInv'
    BY <1>1, <1>2 DEF IInv, TypeOK, ParentInv, EndsInv, ParentReady, Unwritten, Before, Alive
  <1>5. GoInv' /\ EndInv'
    BY <1>1, <1>2 DEF IInv, TypeOK, ParentInv, EndsInv, GoInv, EndInv, ParentReady, ChildReady,
       Unwritten, Before, Alive
  <1>6. SigpipeOnlyAfterKill' /\ ForegroundWaits'
    BY <1>1, <1>2 DEF IInv, TypeOK, ParentInv, EndsInv, GoInv, EndInv, SigpipeOnlyAfterKill,
       ForegroundWaits, Unwritten, Before, Alive
  <1>7. QED
    BY <1>3, <1>4, <1>5, <1>6 DEF IInv

LEMMA ReadGoKeeps == IInv /\ ReadGo => IInv'
  <1> SUFFICES ASSUME IInv, ReadGo PROVE IInv'
    OBVIOUS
  <1> USE DEF ReadGo, ChildEnds, EndOfFile, StackByte
  <1>1. GO_COMMAND_ERROR \in Int
    BY Statuses
  <1>2. /\ Exited(GO_COMMAND_ERROR) \in ExitStatuses
        /\ Exited(GO_COMMAND_ERROR).sig = 0 /\ SIGPIPE # 0 /\ SIGKILL # 0 /\ NoStatus.sig = 0
        /\ Exited(CLOSE_PIPE_ERROR) # NoStatus
    BY <1>1, Statuses
  <1>3. /\ Head(<<"g">>) = "g" /\ Head(<<"s">>) = "s"
        /\ Tail(<<"g">>) = <<>> /\ Tail(<<"s">>) = <<>>
        /\ <<"g">> # <<>> /\ <<"s">> # <<>> /\ <<"g">> # <<"s">>
    BY Bytes
  <1>4. TypeOK'
    BY <1>1, <1>2, <1>3 DEF IInv, TypeOK
  <1>5. ParentInv' /\ EndsInv'
    BY <1>1, <1>2, <1>3 DEF IInv, TypeOK, ParentInv, EndsInv, ParentReady, Unwritten, Before, Alive
  <1>6. GoInv' /\ EndInv'
    BY <1>1, <1>2, <1>3 DEF IInv, TypeOK, ParentInv, EndsInv, GoInv, EndInv, ParentReady, ChildReady,
       Unwritten, Before, Alive
  <1>7. SigpipeOnlyAfterKill' /\ ForegroundWaits'
    BY <1>1, <1>2, <1>3 DEF IInv, TypeOK, ParentInv, EndsInv, GoInv, EndInv, SigpipeOnlyAfterKill,
       ForegroundWaits, Unwritten, Before, Alive
  <1>8. QED
    BY <1>4, <1>5, <1>6, <1>7 DEF IInv

LEMMA ChildSetupKeeps == IInv /\ ChildSetup => IInv'
  <1> SUFFICES ASSUME IInv, ChildSetup PROVE IInv'
    OBVIOUS
  <1> USE DEF ChildSetup, ChildEnds
  <1>1. {EXCEPTION_OCCURED_ERROR, SETHOSTNAME_ERROR} \subseteq Int
    BY Statuses
  <1>2. \A step : Exited(IF step = "sethostname" THEN SETHOSTNAME_ERROR
                       ELSE EXCEPTION_OCCURED_ERROR) \in ExitStatuses
    BY <1>1, Statuses
  <1>3. NoStatus.sig = 0 /\ SIGPIPE # 0 /\ SIGKILL # 0 /\ Exited(CLOSE_PIPE_ERROR) # NoStatus
    BY Statuses
  <1>4. Len(ParentSteps(args)) \in Nat /\ Len(ChildSteps(args)) \in Nat
    BY Programs
  <1>5. ~ChildReady => cdone < Len(ChildSteps(args))
    BY <1>4 DEF IInv, TypeOK, ChildReady
  <1>6. TypeOK'
    <2>1. CASE cdone' = cdone + 1 /\ UNCHANGED <<cpc, ends, status>>
      BY <1>4, <1>5, <2>1 DEF IInv, TypeOK
    <2>2. CASE cdone' = cdone /\ cpc' = "ended"
               /\ ends' = ends \ {"c_read", "c_write"}
               /\ \E step : status' = Exited(IF step = "sethostname"
                                            THEN SETHOSTNAME_ERROR
                                            ELSE EXCEPTION_OCCURED_ERROR)
      BY <1>2, <2>2 DEF IInv, TypeOK
    <2>3. QED
      BY <2>1, <2>2
  <1>7. ParentInv' /\ EndsInv'
    BY <1>1, <1>2, <1>3, <1>4, <1>5 DEF IInv, TypeOK, ParentInv, EndsInv, ParentReady, Unwritten, Before, Alive
  <1>8. GoInv' /\ EndInv'
    BY <1>1, <1>2, <1>3, <1>4, <1>5 DEF IInv, TypeOK, ParentInv, EndsInv, GoInv, EndInv, ParentReady, ChildReady,
       Unwritten, Before, Alive
  <1>9. SigpipeOnlyAfterKill' /\ ForegroundWaits'
    BY <1>1, <1>2, <1>3, <1>4, <1>5 DEF IInv, TypeOK, ParentInv, EndsInv, GoInv, EndInv, SigpipeOnlyAfterKill,
       ForegroundWaits, Unwritten, Before, Alive
  <1>10. QED
    BY <1>6, <1>7, <1>8, <1>9 DEF IInv

LEMMA ExecuteKeeps == IInv /\ Execute => IInv'
  <1> SUFFICES ASSUME IInv, Execute PROVE IInv'
    OBVIOUS
  <1> USE DEF Execute, ChildEnds
  <1>1. EXECUTE_COMMAND_ERROR \in Int
    BY Statuses
  <1>2. Exited(EXECUTE_COMMAND_ERROR) \in ExitStatuses
    BY <1>1, Statuses
  <1>3. NoStatus.sig = 0 /\ SIGPIPE # 0 /\ SIGKILL # 0 /\ Exited(CLOSE_PIPE_ERROR) # NoStatus
    BY Statuses
  <1>4. TypeOK'
    BY <1>1, <1>2, <1>3 DEF IInv, TypeOK
  <1>5. ParentInv' /\ EndsInv'
    BY <1>1, <1>2, <1>3 DEF IInv, TypeOK, ParentInv, EndsInv, ParentReady, Unwritten, Before, Alive
  <1>6. GoInv' /\ EndInv'
    BY <1>1, <1>2, <1>3 DEF IInv, TypeOK, ParentInv, EndsInv, GoInv, EndInv, ParentReady, ChildReady,
       Unwritten, Before, Alive
  <1>7. SigpipeOnlyAfterKill' /\ ForegroundWaits'
    BY <1>1, <1>2, <1>3 DEF IInv, TypeOK, ParentInv, EndsInv, GoInv, EndInv, SigpipeOnlyAfterKill,
       ForegroundWaits, Unwritten, Before, Alive
  <1>8. QED
    BY <1>4, <1>5, <1>6, <1>7 DEF IInv

LEMMA CommandEndsKeeps == IInv /\ CommandEnds => IInv'
  <1> SUFFICES ASSUME IInv, CommandEnds PROVE IInv'
    OBVIOUS
  <1> USE DEF CommandEnds, ChildEnds
  <1>1. \A n \in CommandCodes : Exited(n) \in ExitStatuses
    BY Statuses
  <1>2. NoStatus.sig = 0 /\ SIGPIPE # 0 /\ SIGKILL # 0 /\ Exited(CLOSE_PIPE_ERROR) # NoStatus
    BY Statuses
  <1>3. TypeOK'
    BY <1>1, <1>2 DEF IInv, TypeOK
  <1>4. ParentInv' /\ EndsInv'
    BY <1>1, <1>2 DEF IInv, TypeOK, ParentInv, EndsInv, ParentReady, Unwritten, Before, Alive
  <1>5. GoInv' /\ EndInv'
    BY <1>1, <1>2 DEF IInv, TypeOK, ParentInv, EndsInv, GoInv, EndInv, ParentReady, ChildReady,
       Unwritten, Before, Alive
  <1>6. SigpipeOnlyAfterKill' /\ ForegroundWaits'
    BY <1>1, <1>2 DEF IInv, TypeOK, ParentInv, EndsInv, GoInv, EndInv, SigpipeOnlyAfterKill,
       ForegroundWaits, Unwritten, Before, Alive
  <1>7. QED
    BY <1>3, <1>4, <1>5, <1>6 DEF IInv

LEMMA KillChildKeeps == IInv /\ KillChild => IInv'
  <1> SUFFICES ASSUME IInv, KillChild PROVE IInv'
    OBVIOUS
  <1> USE DEF KillChild, ChildEnds
  <1>1. Killed(SIGKILL) \in ExitStatuses /\ Killed(SIGKILL).sig = SIGKILL /\ SIGKILL # 0 /\ SIGPIPE # 0
        /\ SIGKILL # SIGPIPE /\ NoStatus.sig = 0 /\ Exited(CLOSE_PIPE_ERROR) # NoStatus
    BY Statuses
  <1>2. TypeOK'
    BY <1>1 DEF IInv, TypeOK
  <1>3. ParentInv' /\ EndsInv'
    BY <1>1 DEF IInv, TypeOK, ParentInv, EndsInv, ParentReady, Unwritten, Before, Alive
  <1>4. GoInv' /\ EndInv'
    BY <1>1 DEF IInv, TypeOK, ParentInv, EndsInv, GoInv, EndInv, ParentReady, ChildReady,
       Unwritten, Before, Alive
  <1>5. SigpipeOnlyAfterKill' /\ ForegroundWaits'
    BY <1>1 DEF IInv, TypeOK, ParentInv, EndsInv, GoInv, EndInv, SigpipeOnlyAfterKill,
       ForegroundWaits, Unwritten, Before, Alive
  <1>6. QED
    BY <1>2, <1>3, <1>4, <1>5 DEF IInv

LEMMA StutterKeeps == IInv /\ UNCHANGED vars => IInv'
  BY DEF IInv, TypeOK, ParentInv, EndsInv, GoInv, EndInv, SigpipeOnlyAfterKill,
     ForegroundWaits, ParentReady, ChildReady, Unwritten, Before, Alive, vars

LEMMA NextKeeps == IInv /\ [Next]_vars => IInv'
  <1>1. IInv /\ ParentNext => IInv'
    BY PipeKeeps, CloneKeeps, CloseReadKeeps, ParentSetupKeeps, PushKeeps,
       WriteGoKeeps, CloseWriteKeeps, WaitKeeps, RemoveAndReturnKeeps,
       CatchWriteKeeps, CatchReturnKeeps
       DEF ParentNext
  <1>2. IInv /\ ChildNext => IInv'
    BY ChildCloseWriteKeeps, ReadGoKeeps, ChildSetupKeeps, ExecuteKeeps DEF ChildNext
  <1>3. QED
    BY <1>1, <1>2, CommandEndsKeeps, KillParentKeeps, KillChildKeeps, StutterKeeps
       DEF Next, Finished

(***************************************************************************)
(* The theorems.                                                           *)
(***************************************************************************)
\* The strengthened invariant holds of every reachable state.
THEOREM Invariant == Spec => []IInv
  BY InitIInv, NextKeeps, PTL DEF Spec

\* The variables keep their types; in particular the pipe never holds both
\* bytes.
THEOREM TypeCorrect == Spec => []TypeOK
  <1>1. IInv => TypeOK
    BY DEF IInv
  <1>2. QED
    BY <1>1, Invariant, PTL

\* The command of a container runs only after both setups are complete and
\* its pid is listed, whatever fails and whoever is killed.
THEOREM Configured == Spec => []CommandRunsConfigured
  <1>1. IInv => CommandRunsConfigured
    BY DEF IInv, GoInv, CommandRunsConfigured
  <1>2. QED
    BY <1>1, Invariant, PTL

\* aucont_start dies of SIGPIPE only if its child was killed, or failed to
\* close its copy of the pipe.
THEOREM Sigpipe == Spec => []SigpipeOnlyAfterKill
  <1>1. IInv => SigpipeOnlyAfterKill
    BY DEF IInv
  <1>2. QED
    BY <1>1, Invariant, PTL

\* aucont_start without --daemonize returns normally only after its container
\* has ended and a pid is taken out of the storage.
THEOREM Foreground == Spec => []ForegroundWaits
  <1>1. IInv => ForegroundWaits
    BY DEF IInv
  <1>2. QED
    BY <1>1, Invariant, PTL
====
