------------------------------ MODULE Notifier ------------------------------
(***************************************************************************)
(* net_io_notifier: the pipe by which work processes wake the net process, *)
(* and the flag in shared memory that keeps them from writing a byte while *)
(* an earlier one has not been dealt with.  The net process watches the    *)
(* read end edge triggered: every byte written is reported once.           *)
(*                                                                         *)
(* popup and got are two steps each, on the flag and on the pipe, and any  *)
(* step of another process may come between them.                          *)
(***************************************************************************)
EXTENDS Naturals

VARIABLES
  flag,         \* *m_p_mutex_
  pipe,         \* bytes in the pipe
  edge          \* epoll has an event of the read end to report

notifierVars == <<flag, pipe, edge>>

NotifierInit ==
  /\ flag = 0
  /\ pipe = 0
  /\ edge = FALSE

\* popup, __sync_lock_test_and_set finds the flag set: nothing else to do
PopupSkip ==
  /\ flag = 1
  /\ UNCHANGED notifierVars

\* popup, __sync_lock_test_and_set finds the flag clear
PopupSet ==
  /\ flag = 0
  /\ flag' = 1
  /\ UNCHANGED <<pipe, edge>>

\* popup, the write
PopupWrite ==
  /\ pipe' = pipe + 1
  /\ edge' = TRUE
  /\ UNCHANGED flag

\* epoll_wait returns the event of the read end
Reported ==
  /\ edge
  /\ edge' = FALSE
  /\ UNCHANGED <<flag, pipe>>

\* got, __sync_lock_release
GotRelease ==
  /\ flag' = 0
  /\ UNCHANGED <<pipe, edge>>

\* variant: the read is left out
GotReadForgotten == UNCHANGED notifierVars

\* got, the read of one byte
GotRead ==
  /\ pipe' = IF pipe > 0 THEN pipe - 1 ELSE 0
  /\ UNCHANGED <<flag, edge>>
=============================================================================
