-------------------------------- MODULE MCS3 --------------------------------
(***************************************************************************)
(* The S3 store over one package: two servers and one operation at a time, *)
(* or one server alone and two operations at once.                         *)
(***************************************************************************)
EXTENDS S3Store

CONSTANTS a, i1, i2, t1, t2, u1

OneVersion == {"1"}
OneTask == {t1}
TwoTasks == {t1, t2}
OneUpload == {u1}
OneName == {a}
OneInstance == {i1}
TwoInstances == {i1, i2}
MCSettable == {"buggy"}

=============================================================================
