----------------------------- MODULE MCStaging -----------------------------
(* A library of two subpackages for TLC, in two versions.  The header is   *)
(* staged by fake only, the service file by its subpackage only; the       *)
(* second version has no first subpackage, and its tool is in the second.  *)
EXTENDS Staging

CONSTANTS header, lib, tool, service, config

MCPath     == {header, lib, tool, service}
MCDeclared == <<{1, 2}, {2}>>
MCInstalls == <<{header, lib, tool}, {header, tool}>>
MCIdir     == << <<{tool, service}, {lib}>>, <<{}, {tool}>> >>
MCConfigOf == <<{config}, {}>>
=============================================================================
