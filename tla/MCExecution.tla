------------------------------ MODULE MCExecution ------------------------------
(* Instances of the Operator's execution for TLC. *)
EXTENDS Execution

CONSTANTS heal1, heal2, page

TwoHealsAndPage == <<heal1, page, heal2>>
OneHeal         == <<heal2>>
RepeatedHeal    == <<heal1, heal2, heal1>>

ShortPlans   == {TwoHealsAndPage}
VariousPlans == {TwoHealsAndPage, OneHeal, RepeatedHeal}
===============================================================================
