---------------------------- MODULE MCAuthDetect ----------------------------
(* Small instances of AuthDetect for TLC: every combination of endpoints,      *)
(* and of what honours the key, at servers of two versions; one anonymous      *)
(* detection at each kind of version.                                          *)
EXTENDS AuthDetect

MCVersions ==
  {<<"numbers", 4, 4>>, <<"numbers", 5, 0>>, <<"numbers", 5, Nil>>,
   <<"numbers", 5, 1>>, <<"numbers", 6, Nil>>,
   <<"odd", 0, Nil>>, <<"custom", 0, Nil>>, <<"none", 0, Nil>>}

MCKeyed ==
  {s \in [redhat : BOOLEAN, email : BOOLEAN, key : {TRUE}, header : BOOLEAN,
          query : BOOLEAN, whoami : {"works", "missing", "broken"},
          login : {"works", "denies header", "missing", "broken"},
          anonymous : {"same", "public", "refused"},
          challenge : {"none", "html", "error"}, version : {<<"numbers", 5, 1>>}] :
     s.login = "denies header" \/ (s.anonymous = "public" /\ s.challenge = "none")}

MCAnonymous ==
  [redhat : BOOLEAN, email : {FALSE}, key : {FALSE}, header : {TRUE}, query : {TRUE},
   whoami : {"works"}, login : {"works"}, anonymous : {"public"},
   challenge : {"none"}, version : MCVersions]

MCServers == MCKeyed \cup MCAnonymous
=============================================================================
