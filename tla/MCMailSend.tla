----------------------------- MODULE MCMailSend -----------------------------
(* Instance of MailSend for TLC: two drafts, two confirmations (both for  *)
(* one draft, or one for each), two calls that race for them, and a user    *)
(* who may switch between two accounts.                                     *)
EXTENDS MailSend
=============================================================================
