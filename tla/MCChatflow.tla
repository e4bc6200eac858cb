------------------------------ MODULE MCChatflow ------------------------------
(* Small instances of Chatflow: the scripts of their steps. *)
EXTENDS Chatflow

\* A step of two questions, and one that shows its progress and asks who the
\* user is.
TwoSteps == <<<<"ask", "ask">>, <<"note", "user", "ask">>>>
==============================================================================
