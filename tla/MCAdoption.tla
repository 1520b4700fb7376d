----------------------------- MODULE MCAdoption -----------------------------
(* Values for the model checker: key and URL texts are strings, sessions    *)
(* are model values.                                                        *)
EXTENDS Adoption, TLC

CONSTANTS s1, s2

MCKeyBytes == [k \in RawKey \cup HexKey |->
                 IF k \in {"k1hex", "k1raw"} THEN "k1"
                 ELSE IF k = "defhex" THEN "default" ELSE "k2"]

SessionSymmetry == Permutations(Session)

InitialKeyed ==
  [state |-> "connected", informURL |-> "", authKey |-> "k1raw", cfgVersion |-> "",
   useAESGCM |-> FALSE, version |-> "v0"]

InvalidFile == [ZeroStore EXCEPT !.state = "connected"]

NoneOrInvalid == {NoFile, InvalidFile}

\* Files the daemon may find: none, one of an adopted device with a legacy raw
\* key, a device whose adoption was recorded as failed, and an invalid one.
FilesFound ==
  {NoFile, InitialKeyed,
   [ZeroStore EXCEPT !.state = "failed"],
   InvalidFile}
=============================================================================
