--------------------------- MODULE MCCoroutineMgr ---------------------------
(***************************************************************************)
(* Small instances of CoroutineMgr.  Descriptors and coroutine ids are     *)
(* both small integers in the code, so they are numbers here as well.      *)
(***************************************************************************)
EXTENDS CoroutineMgr

MCIds == 1 .. (IdSpace - 1)

\* The wall clock may be set back to 0 or forward to 2 at any time.
MCClockSteps == {0, 2}

\* In the programs 0-2 are the standard streams, 3 is epoll, 4 the listening
\* socket: 5 is the first descriptor of a client.
FirstClientFd == 5
MCClosedFds   == {FirstClientFd}
=============================================================================
