----------------------------- MODULE MCRebuild -----------------------------
(***************************************************************************)
(* Rebuild with busybox, which has its own options, and samba, which has a *)
(* binary package, a flavour and a choice with dependencies of their own,  *)
(* a string flavour and host tools, one of them optional.                  *)
(***************************************************************************)
EXTENDS Rebuild

\* The hypotheses of the theorems in Rebuild_proofs hold of this instance.
ASSUME InstanceAssumption == Orderly(Option) /\ Separate

L(var, sub, words) == [var |-> var, sub |-> sub, words |-> words]

MCPkg == {"busybox", "samba"}
MCName == [p \in MCPkg |-> IF p = "busybox" THEN <<"BUSYBOX">> ELSE <<"SAMBA">>]
MCMakefile == [p \in MCPkg |->
    IF p = "busybox" THEN << >>
    ELSE << L("SUBPKGS", << >>, <<"SAMBA">>),
            L("BUILDDEP", << >>, <<"busybox">>),
            L("BUILDDEP_", <<"MUSL">>, <<"libexecinfo">>),
            L("HOST_BUILDDEP", << >>, <<"xz">>),
            L("HOST_BUILDDEP", << >>, <<"flex", "bison">>),
            L("FLAVOURS", <<"SAMBA">>, << >>),
            L("FLAVOURS+", <<"SAMBA">>, <<"WITH_TALLOC">>),
            L("FB", <<"WITH_TALLOC">>, <<"talloc">>),
            L("CHOICES", <<"SAMBA">>, <<"WITH_SSL">>),
            L("CB", <<"WITH_SSL">>, <<"openssl">>),
            L("FLAVOURS_STRING", <<"SAMBA">>, <<"HOST">>) >>]
MCLibc == {<<"MUSL">>}
MCOptionalTool == {"xz"}

SAMBA == <<"PACKAGE", "SAMBA">>
WITH_TALLOC == <<"PACKAGE", "SAMBA", "WITH_TALLOC">>
WITH_SSL == <<"PACKAGE", "SAMBA", "WITH_SSL">>
HOST == <<"PACKAGE", "SAMBA", "HOST">>
TAR == <<"BUSYBOX", "TAR">>
SYSV == <<"RUNTIME", "INIT", "SYSV">>
MUSL == <<"LIB", "MUSL">>
XZ == <<"HOST_BUILD", "xz">>

MCSettings == [o \in {SAMBA, WITH_TALLOC, WITH_SSL, HOST, TAR, SYSV, MUSL, XZ} |->
                 CASE o = HOST -> {"ptb", "pool"} [] o = MUSL -> {"y"}
                   [] OTHER -> {"y", Absent}]
MCPrefix == [o \in DOMAIN MCSettings |->
               CASE o = TAR -> {"BUSYBOX"}
                 [] o = SYSV -> {"ADK_RUNTIME_", "ADK_RUNTIME_INIT_"}
                 [] OTHER -> {}]
MCDefault == [o \in DOMAIN MCSettings |->
                CASE o = HOST -> "ptb" [] o \in {SAMBA, SYSV, TAR, MUSL} -> "y"
                  [] OTHER -> Absent]
\* STRING_SAMBA_HOST is a key of pkgmap only.
MCKey == DOMAIN MCSettings \cup {<<"PACKAGE", "STRING", "SAMBA", "HOST">>}
MCValue == {"y", "ptb", "pool"} \cup MCPkg
=============================================================================
