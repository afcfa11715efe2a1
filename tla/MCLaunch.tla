------------------------------- MODULE MCLaunch -----------------------------
(* Instances of Launch for TLC.                                             *)
EXTENDS Launch, TLC

CONSTANTS shop, db, kv

Uri(environment, half, fallback) ==
  [kind |-> "uri", environment |-> environment, name |-> db, global |-> FALSE,
   half |-> half, fallback |-> fallback]

Text(kind, fallback) == [Uri("dev", "public", fallback) EXCEPT !.kind = kind]

GlobalUri == [Uri("dev", "public", FALSE) EXCEPT !.global = TRUE]

\* Pairs that meet in a coordinate, a reference, a keypair or an environment.
SomeContracts ==
  {<<Uri(Placeholder, "public", FALSE), Uri("dev", "private", FALSE)>>,
   <<Uri("prod", "private", FALSE), Uri("dev", "public", TRUE)>>,
   <<Uri("dev", "public", FALSE), Uri(Placeholder, "private", TRUE)>>,
   <<Uri("prod", "public", FALSE), Uri(Placeholder, "public", TRUE)>>,
   <<Text("passthrough", FALSE), GlobalUri>>,
   <<Text("literal", FALSE), Uri("prod", "public", TRUE)>>}

Record(kind, sensitivity) == [kind |-> kind, sensitivity |-> sensitivity, reference |-> kv]

SomeStock ==
  {Record("literal", "low"), Record("literal", "high"), Record("reference", "medium"),
   Record("reference", "high"), Record("keypair", "high"), Record("keypair", "inject-only"),
   Record("public-only keypair", "high"), Record("totp", "high")}

\* An unrestricted session, one that may not inject, one kept out of prod, and
\* one of its project alone.
SomeScopes ==
  {FullScope,
   [FullScope EXCEPT !.operations = {"metadata", "reveal"}],
   [FullScope EXCEPT !.environments = {"dev"}],
   [FullScope EXCEPT !.projects = Projects]}
=============================================================================
