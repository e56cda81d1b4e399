------------------------------ MODULE VideoSocket ------------------------------
(***************************************************************************)
(* The controller's web server, as far as the video page goes              *)
(* (webServerBlueprints.cpp): for every page a child process writes the    *)
(* video into a pipe and a detached thread sends what it reads from there. *)
(* Pipe and process id of the last page opened are globals of the program, *)
(* file descriptors are its small numbers, given again once closed.  Crow  *)
(* has a worker thread for every core but one, and nothing keeps the       *)
(* handlers of two workers apart.  Which of them serves a page is left     *)
(* out: as many handlers may run as there are workers.  Pages are numbered *)
(* in the order in which they are opened; a child has the number of the    *)
(* page it was forked for, and so has a pipe.                              *)
(***************************************************************************)
EXTENDS Naturals, FiniteSets, ControllerProcess

CONSTANTS Pages, None,
          Workers      \* how many there are

ASSUME PagesAssumption == Pages \subseteq Nat /\ None \notin Pages /\ IsFiniteSet(Pages)
ASSUME WorkersAssumption == Workers \in Nat \ {0}

VARIABLES server,      \* Crow's
          page,        \* what the handlers do next for each page
          pipe_fd,     \* the descriptors of the last pipe made
          fds,         \* what each descriptor stands for
          child,       \* the children
          held,        \* the pipes each could write to; the one it does write to
          target,
          reader,      \* what each reading thread does next
          fd, source,  \* its argument; the pipe it is blocked on
          overlapped   \* history: pages whose onopen another one's ran into

videoVars == <<server, page, pipe_fd, fds, child, held, target, reader, fd, source, overlapped>>

Opening == {"fork", "thread"}
Closing == {"wait", "close_read", "close_write"}
PageStages == {"new", "open", "gone"} \cup Opening \cup Closing
ReaderStages == {"none", "call", "blocked", "send", "close", "done"}
Alive == {"forked", "runs", "doomed"}
ChildStages == {"none", "zombie", "reaped"} \cup Alive

Fds == 1..(2 * Cardinality(Pages))     \* no page is opened twice
End(p, way) == [pipe |-> p, way |-> way]
Free == End(None, "none")
Ends == {Free} \cup {End(p, way) : p \in Pages, way \in {"read", "write"}}

VideoTypeOK ==
    /\ server \in {"down", "up", "signalled", "stopped", "destroyed"}
    /\ page \in [Pages -> PageStages]
    /\ pipe_fd \in [{"read", "write"} -> Fds \cup {0}]
    /\ fds \in [Fds -> Ends]
    /\ child \in [Pages -> ChildStages] /\ held \in [Pages -> SUBSET Pages]
    /\ target \in [Pages -> Pages \cup {None}]
    /\ reader \in [Pages -> ReaderStages]
    /\ fd \in [Pages -> Fds \cup {0}] /\ source \in [Pages -> Pages \cup {None}]
    /\ overlapped \subseteq Pages

VideoInit ==
    /\ server = "down"
    /\ page = [p \in Pages |-> "new"]
    /\ pipe_fd = [way \in {"read", "write"} |-> 0]
    /\ fds = [f \in Fds |-> Free]
    /\ child = [p \in Pages |-> "none"] /\ held = [p \in Pages |-> {}]
    /\ target = [p \in Pages |-> None]
    /\ reader = [p \in Pages |-> "none"]
    /\ fd = [p \in Pages |-> 0] /\ source = [p \in Pages |-> None]
    /\ overlapped = {}

Aborts == process' = "exited" /\ UNCHANGED videoVars

-----------------------------------------------------------------------------
(***************************************************************************)
(* The workers: onopen and onclose of the pages.                           *)
(***************************************************************************)
Handled == {p \in Pages : page[p] \in Opening \cup Closing}
Serves == server \in {"up", "signalled"} /\ Cardinality(Handled) < Workers

Handler(p, stage, next) ==
    /\ process = "running" /\ page[p] = stage
    /\ page' = [page EXCEPT ![p] = next]
    /\ UNCHANGED process

LowestFree(r, w) ==
    /\ fds[r] = Free /\ fds[w] = Free /\ r < w
    /\ \A f \in 1..(w - 1) : fds[f] = Free => f = r

NextToOpen(p) == page[p] = "new" /\ \A q \in Pages : q < p => page[q] # "new"

\* onopen begins with pipe.
OpenPage(p) ==
    /\ Serves /\ NextToOpen(p)
    /\ Handler(p, "new", "fork")
    /\ \E r, w \in Fds :
          /\ LowestFree(r, w)
          /\ pipe_fd' = [read |-> r, write |-> w]
          /\ fds' = [fds EXCEPT ![r] = End(p, "read"), ![w] = End(p, "write")]
    /\ overlapped' = LET others == {q \in Pages : page[q] \in Opening}
                     IN  IF others = {} THEN overlapped ELSE overlapped \cup others \cup {p}
    /\ UNCHANGED <<server, child, held, target, reader, fd, source>>

\* The child inherits every descriptor the program has, other pages' too, and
\* writes to what the globals stand for at this moment.
Fork(p) ==
    /\ Handler(p, "fork", "thread")
    /\ child' = [child EXCEPT ![p] = "forked"]
    /\ held' = [held EXCEPT ![p] = {q \in Pages : \E f \in Fds : fds[f] = End(q, "write")}]
    /\ LET out == fds[pipe_fd["write"]]
       IN  target' = [target EXCEPT ![p] = IF out.way = "write" THEN out.pipe ELSE None]
    /\ UNCHANGED <<server, pipe_fd, fds, reader, fd, source, overlapped>>

PipeOrForkFails(p) ==
    /\ process = "running"
    /\ \/ Serves /\ NextToOpen(p)
       \/ page[p] = "fork"
    /\ Aborts

\* std::thread copies the descriptor.
StartReader(p) ==
    /\ Handler(p, "thread", "open")
    /\ reader' = [reader EXCEPT ![p] = "call"]
    /\ fd' = [fd EXCEPT ![p] = pipe_fd["read"]]
    /\ UNCHANGED <<server, pipe_fd, fds, child, held, target, source, overlapped>>

\* onclose: kill(0, SIGTERM) goes to the program and to all its children.  A
\* child between fork and exec still has Crow's handler and lives on.
ClosePage(p) ==
    /\ Serves
    /\ Handler(p, "open", "wait")
    /\ server' = "signalled"
    /\ child' = [q \in Pages |-> IF child[q] = "runs" THEN "doomed" ELSE child[q]]
    /\ UNCHANGED <<pipe_fd, fds, held, target, reader, fd, source, overlapped>>

\* waitpid(0): one child, whichever ends first, or none when there is none.
WaitForChild(p) ==
    /\ Handler(p, "wait", "close_read")
    /\ \/ \E q \in Pages : child[q] = "zombie" /\ child' = [child EXCEPT ![q] = "reaped"]
       \/ (\A q \in Pages : child[q] \in {"none", "reaped"}) /\ UNCHANGED child
    /\ UNCHANGED <<server, pipe_fd, fds, held, target, reader, fd, source, overlapped>>

Closed(f) == [fds EXCEPT ![f] = Free]

CloseRead(p) ==
    /\ Handler(p, "close_read", "close_write")
    /\ fds' = Closed(pipe_fd["read"])
    /\ UNCHANGED <<server, pipe_fd, child, held, target, reader, fd, source, overlapped>>

CloseWriteForgotten(p) ==                              \* mutant: pipe_fd[1] stays open
    /\ Handler(p, "close_write", "gone")
    /\ UNCHANGED <<server, pipe_fd, fds, child, held, target, reader, fd, source, overlapped>>
\* After it Crow deletes the connection.
CloseWrite(p) ==
    /\ Handler(p, "close_write", "gone")
    /\ fds' = Closed(pipe_fd["write"])
    /\ UNCHANGED <<server, pipe_fd, child, held, target, reader, fd, source, overlapped>>

Handling(p) == Fork(p) \/ StartReader(p) \/ WaitForChild(p) \/ CloseRead(p) \/ CloseWrite(p)

-----------------------------------------------------------------------------
(***************************************************************************)
(* The children, ffmpeg, and Crow's reaction to SIGINT and SIGTERM.        *)
(***************************************************************************)
ChildGoes(p, stages, next) ==
    /\ child[p] \in stages
    /\ child' = [child EXCEPT ![p] = next]
    /\ UNCHANGED <<process, server, page, pipe_fd, fds, held, target, reader, fd, source,
                   overlapped>>

Exec(p) == ChildGoes(p, {"forked"}, "runs")

\* execlp fails, or ffmpeg ends for a reason of its own.
ChildEnds(p) == ChildGoes(p, {"forked", "runs"}, "zombie")
ChildObeys(p) == ChildGoes(p, {"doomed"}, "zombie")

Interrupt ==
    /\ process = "running" /\ server = "up"
    /\ server' = "signalled"
    /\ UNCHANGED <<process, page, pipe_fd, fds, child, held, target, reader, fd, source,
                   overlapped>>

\* No new handler starts; those that run come to their end.
StopServer ==
    /\ process = "running" /\ server = "signalled"
    /\ server' = "stopped"
    /\ UNCHANGED <<process, page, pipe_fd, fds, child, held, target, reader, fd, source,
                   overlapped>>

-----------------------------------------------------------------------------
(***************************************************************************)
(* The reading threads, send_video_websocket.                              *)
(***************************************************************************)
Reader(p, stage, next) ==
    /\ process = "running" /\ reader[p] = stage
    /\ reader' = [reader EXCEPT ![p] = next]
    /\ UNCHANGED <<process, server, page, pipe_fd, child, held, target, fd, overlapped>>

ReadFdGlobal(p) == pipe_fd["read"]                     \* mutant: pipe_fd means the global
ReadFd(p) == fd[p]

CallRead(p) ==
    /\ Reader(p, "call", "blocked")
    /\ fds[ReadFd(p)].way = "read"
    /\ source' = [source EXCEPT ![p] = fds[ReadFd(p)].pipe]
    /\ UNCHANGED fds

\* -1 in a size_t: no string is that long, and nobody catches the exception.
ReadFails(p) ==
    /\ process = "running" /\ reader[p] = "call"
    /\ fds[ReadFd(p)].way # "read"
    /\ Aborts

\* What is left in the pipe of a child that has ended counts as read before.
ReadData(p) ==
    /\ Reader(p, "blocked", "send")
    /\ \E c \in Pages : child[c] \in {"runs", "doomed"} /\ target[c] = source[p]
    /\ source' = [source EXCEPT ![p] = None]
    /\ UNCHANGED fds

HasWriter(q) ==
    \/ \E f \in Fds : fds[f] = End(q, "write")
    \/ \E c \in Pages : child[c] \in Alive /\ q \in held[c]

ReadEnd(p) ==
    /\ Reader(p, "blocked", "close")
    /\ ~HasWriter(source[p])
    /\ source' = [source EXCEPT ![p] = None]
    /\ UNCHANGED fds

Send(p) ==
    /\ Reader(p, "send", "call")
    /\ UNCHANGED <<fds, source>>

\* The connection is deleted by now, or Crow's application with it: sending may
\* end the program, and may do nothing.
SendToNobody(p) ==
    /\ process = "running" /\ reader[p] = "send"
    /\ page[p] = "gone" \/ server = "destroyed"
    /\ Aborts

\* The second close of the descriptor, whatever it stands for by now.
CloseOwn(p) ==
    /\ Reader(p, "close", "done")
    /\ fds' = Closed(fd[p])
    /\ UNCHANGED source

Reading(p) == CallRead(p) \/ ReadFails(p) \/ ReadEnd(p) \/ Send(p) \/ CloseOwn(p)

\* What the threads owe nobody: data, and a crash.
ReadingLucky(p) == ReadData(p) \/ SendToNobody(p)
==============================================================================
