------------------------- MODULE MCStudyReminderJobs -------------------------
(* Small instance of the study reminder outbox. *)
EXTENDS StudyReminderJobs, TLC

Symmetric == Permutations(Workers) \cup Permutations(Users)
=============================================================================
