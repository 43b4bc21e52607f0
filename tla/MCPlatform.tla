----------------------------- MODULE MCPlatform -----------------------------
(***************************************************************************)
(* What the platform itself serves, side by side: the files service, the   *)
(* identities of the handlers that call /services, and the page in         *)
(* Shopify's admin.  In the models they share no state, so each behaviour  *)
(* runs the one that `component` names and the others stay in the state    *)
(* they began in.                                                          *)
(***************************************************************************)
EXTENDS MCFileStorage, ServiceIdentity, AdminShell

VARIABLE component

filesVars == vars

-----------------------------------------------------------------------------
PlatformInit ==
    /\ component \in {"files", "identity", "shell"}
    /\ Init /\ IdentityInit /\ ShellInit
    /\ component # "identity" => created = 0 /\ \A a \in HandlerApps : standing[a] = "idle"
    /\ component # "shell"    => strict /\ shellView = "loading" /\ activeAppId = NoPanel

FilesStep ==
    /\ component = "files" /\ Next
    /\ UNCHANGED <<component, identityVars, shellVars>>

IdentityStep ==
    /\ component = "identity" /\ IdentityNext
    /\ UNCHANGED <<component, filesVars, shellVars>>

ShellStep ==
    /\ component = "shell" /\ ShellNext
    /\ UNCHANGED <<component, filesVars, identityVars>>

PlatformNext == FilesStep \/ IdentityStep \/ ShellStep

platformVars == <<component, filesVars, identityVars, shellVars>>

PlatformSpec == PlatformInit /\ [][PlatformNext]_platformVars
=============================================================================
