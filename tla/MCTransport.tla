---------------------------- MODULE MCTransport -----------------------------
(***************************************************************************)
(* The networks for which Transport is model-checked.                      *)
(***************************************************************************)
EXTENDS Transport

Perfect == {}

\* Keeps the order and answers in time.
LosesData == {"lose_data", "truncate"}
LosesAnswers == {"lose_ack"}
LosesBoth == LosesData \cup LosesAnswers

\* One DATA packet may be lost, and answers may be late.
LateAnswers == {"lose_data", "late"}

AnyNetwork == LosesBoth \cup {"duplicate", "reorder", "late", "fail"}
=============================================================================
