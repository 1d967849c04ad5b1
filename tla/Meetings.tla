------------------------------ MODULE Meetings ------------------------------
(***************************************************************************)
(* The interviews of an interviewer (module Interviews) beside the mails,  *)
(* calendars and reminders of one of them (module Invitations), which has  *)
(* rows, requests and starts of its own.                                   *)
(***************************************************************************)
EXTENDS Interviews

CONSTANTS Start, DAY, MaxNow, MaxSeq, MaxFaults

VARIABLES now, meeting, task, outbox, calendar, jobs, job, reminded, arranged, ended, lost,
          overlapped, faults

invitations == <<now, meeting, task, outbox, calendar, jobs, job, reminded,
                 arranged, ended, lost, overlapped, faults>>

V == INSTANCE Invitations
       WITH Request <- Proc, Slot <- Start, iv <- meeting, crossed <- overlapped

ASSUME InvitationsAreSound == V!InvitationsConstants

\* Both calendars follow the interview, and both sides are reminded of the time
\* that is booked, once (module Invitations).
InvitationsHold == V!InvitationsHold
=============================================================================
