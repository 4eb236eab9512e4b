---------------------------- MODULE MCHttpServer ----------------------------
EXTENDS HttpServer, TLC

(* The first client uses its connection twice if it is kept alive.         *)
TwoClients == {"k1", "k2"}
OneClient  == {"k1"}
Twice      == "k1" :> 2 @@ "k2" :> 1
Once       == "k1" :> 1

FilesAndPages == "k1" :> {"file", "same", "bad"} @@ "k2" :> {"page"}
FilesOnly     == "k1" :> {"file"}
=============================================================================
