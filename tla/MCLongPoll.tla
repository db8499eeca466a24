----------------------------- MODULE MCLongPoll -----------------------------
(* Instances of LongPoll for TLC: every constant is given in Polling.cfg.  *)
EXTENDS LongPoll

=============================================================================
