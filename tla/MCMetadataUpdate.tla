-------------------------- MODULE MCMetadataUpdate --------------------------
(* Which namespaces the published versions have.                             *)
EXTENDS MetadataUpdate

\* Version 2 adds a namespace.
Growing == <<{"A"}, {"A", "B"}>>
=============================================================================
