------------------------------ MODULE MCRegistry ------------------------------
(* Model of Registry for TLC: two long device ids share their stored form.   *)
EXTENDS Registry, TLC

CutIds == "a" :> "a" @@ "b" :> "b" @@ "long1" :> "long" @@ "long2" :> "long"
===============================================================================
