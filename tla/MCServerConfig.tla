---------------------------- MODULE MCServerConfig ----------------------------
(***************************************************************************)
(* ServerConfig with every command line of up to four of these words.       *)
(***************************************************************************)
EXTENDS ServerConfig, TLC

\* An int of 18 bits, a uint64_t of as many: one number fits no type, one only a uint64_t.
Numbers == "-1" :> -1 @@ "0" :> 0 @@ "7" :> 7 @@ "65536" :> 65536
           @@ "too long for int" :> 200000 @@ "too long" :> 300000

SomeWords == Options \cup DOMAIN Numbers \cup {"empty", "file"}
=============================================================================
