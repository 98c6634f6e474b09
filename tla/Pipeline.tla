------------------------------ MODULE Pipeline ------------------------------
(***************************************************************************)
(* The command interpreter of homework09 (third_task) after parsing: the   *)
(* commands run one by one, each forked and waited for before the next.    *)
(* There is one pipe, from the command before the last | to the one after  *)
(* it; without a | the first command gets it for its STDIN.  The child of  *)
(* a command that execv() cannot start does not exit: it goes on in the    *)
(* loop as a second interpreter, with the rest of the commands and with    *)
(* the redirections made for the command, while the first waits for it.    *)
(*                                                                         *)
(* Who writes into the pipe has a read end open too, itself or by way of   *)
(* an interpreter that waits: nobody gets SIGPIPE.  The first interpreter's*)
(* STDIN and STDOUT are a terminal: what is read there comes to an end,    *)
(* and the prompt has left its buffer before the first fork.               *)
(***************************************************************************)
EXTENDS Integers, Sequences, FiniteSetsExt

CONSTANTS
  Commands,        \* cur_cmd + 1
  PIPE_BUF,        \* capacity of the pipe
  Outputs          \* what a command may write

VARIABLES
  redir,           \* redir_cmd, from 1: 0 for none
  found_cmd,       \* by command: can execv() start it
  output,          \* what each command writes whose STDOUT can be the pipe
  reads,           \* the commands that read STDIN to its end, if it can be the pipe
  shells,          \* the interpreters, each waiting for the next one
  running,         \* the last one waits for a command
  written,         \* what that command has written into the pipe
  pipe             \* what the pipe holds

pipelineVars == <<redir, found_cmd, output, reads, shells, running, written, pipe>>
input == <<redir, found_cmd, output, reads>>

(* An interpreter is at a command, and holds the pipe open for writing or  *)
(* not.  After a command failed, its STDIN or STDOUT may be the pipe.      *)
Shell(i, w, in, out) == [index |-> i, write_end |-> w, stdin_pipe |-> in, stdout_pipe |-> out]

Found == {i \in 1..Commands : found_cmd[i]}

PipelineInit ==
  /\ redir \in 0..Commands - 1
  /\ found_cmd \in [1..Commands -> BOOLEAN]
  /\ reads \in SUBSET {i \in Found : i > redir}
  /\ output \in [{i \in Found : redir > 0 /\ (i = redir \/ (i > redir /\ redir \notin Found))} -> Outputs]
  /\ shells = <<Shell(1, TRUE, FALSE, FALSE)>>
  /\ running = FALSE /\ written = 0 /\ pipe = 0

Top == shells[Len(shells)]
SetTop(s) == shells' = [shells EXCEPT ![Len(shells)] = s]
Waiting == shells # <<>> /\ ~running /\ Top.index <= Commands

(* With redir = 0 there is no writer, and the first command is the reader. *)
Kind(i) ==
  IF i = redir THEN "writer" ELSE IF i = redir + 1 THEN "reader" ELSE "other"

FromPipe == Kind(Top.index) = "reader" \/ Top.stdin_pipe
ToPipe == Kind(Top.index) = "writer" \/ Top.stdout_pipe

Start ==
  /\ Waiting /\ Top.index \in Found
  /\ running' = TRUE /\ written' = 0
  /\ UNCHANGED <<input, shells, pipe>>

(* The child comes back from execv(), waits for nobody, closes what its    *)
(* parent would and goes on.                                               *)
StartFails ==
  /\ Waiting /\ Top.index \notin Found
  /\ shells' = Append(shells,
       Shell(Top.index + 1, Top.write_end /\ Kind(Top.index) # "writer", FromPipe, ToPipe))
  /\ UNCHANGED <<input, running, written, pipe>>

WriteSome ==
  /\ running /\ ToPipe /\ written < output[Top.index] /\ pipe < PIPE_BUF
  /\ written' = written + 1 /\ pipe' = pipe + 1
  /\ UNCHANGED <<input, shells, running>>

ReadSome ==
  /\ running /\ FromPipe /\ Top.index \in reads /\ pipe > 0
  /\ pipe' = pipe - 1
  /\ UNCHANGED <<input, shells, running, written>>

(* Somebody can still write: an interpreter, or the command itself.        *)
Open == \E i \in DOMAIN shells : shells[i].write_end \/ shells[i].stdout_pipe

CanEnd ==
  /\ running
  /\ ToPipe => written = output[Top.index]
  /\ FromPipe /\ Top.index \in reads => pipe = 0 /\ ~Open

(* wait() returns; the end of the pipe the command had is closed.          *)
CommandEndsOpen ==
  /\ CanEnd
  /\ SetTop([Top EXCEPT !.index = @ + 1])
  /\ running' = FALSE
  /\ UNCHANGED <<input, written, pipe>>

CommandEnds ==
  /\ CanEnd
  /\ SetTop([Top EXCEPT !.index = @ + 1, !.write_end = @ /\ Kind(Top.index) # "writer"])
  /\ running' = FALSE
  /\ UNCHANGED <<input, written, pipe>>

(* An interpreter ends; the one before it takes it for its command.        *)
ShellExits ==
  LET rest == SubSeq(shells, 1, Len(shells) - 1) IN
  /\ shells # <<>> /\ ~running /\ Top.index > Commands
  /\ IF rest = <<>> THEN shells' = <<>>
     ELSE LET last == rest[Len(rest)] IN
       shells' = [rest EXCEPT ![Len(rest)] =
                    [last EXCEPT !.index = @ + 1,
                                 !.write_end = @ /\ Kind(last.index) # "writer"]]
  /\ UNCHANGED <<input, running, written, pipe>>

PipelineNext == Start \/ StartFails \/ WriteSome \/ ReadSome \/ CommandEnds \/ ShellExits

-----------------------------------------------------------------------------
(* Which inputs come to an end.  Each failure before a command doubles the *)
(* interpreters that come to it.  Who reads the pipe to its end needs      *)
(* every write end closed: there was a |, nothing failed up to it, and the *)
(* pipe has held the whole output.  If nobody reads, the pipe must hold    *)
(* all that is written into it: the redirected command's output in every   *)
(* interpreter or, where that command failed, what half of the             *)
(* interpreters, its children, make the later commands write.              *)
Failed == (1..Commands) \ Found
Interpreters(i) == 2 ^ Cardinality(Failed \cap 1..i - 1)

Readers == IF redir + 1 \in Found THEN {redir + 1} ELSE redir + 1..Commands
AllWritten ==
  MapThenSumSet(LAMBDA i : output[i] * (IF i = redir THEN Interpreters(i) ELSE Interpreters(i) \div 2),
                DOMAIN output)

Ends ==
  IF Readers \cap reads # {}
    THEN redir > 0 /\ Failed \cap 1..redir = {} /\ AllWritten <= PIPE_BUF
    ELSE AllWritten <= PIPE_BUF

PipelineSettled == (shells = <<>>) = Ends

=============================================================================
