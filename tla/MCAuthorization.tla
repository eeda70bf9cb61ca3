--------------------------- MODULE MCAuthorization ---------------------------
(***************************************************************************)
(* One user (the answers about one do not depend on another's), three       *)
(* relations of a project, one of them not defined for it and one implied by *)
(* another, one inherited, one caller, and one administrator who may move   *)
(* the user between any two of the caller's questions.                      *)
(***************************************************************************)
EXTENDS Authorization

MCActions == {"view", "approve", "delete"}
MCRelations == {"owner", "admin", "viewer"}
MCInherited == {"organization admin"}
MCImpliedBy ==
    [r \in MCRelations |-> ProjectModel[r] \cap (MCRelations \cup MCInherited)]
MCRequired == [a \in MCActions |-> DefaultMappings[a] \cap MCRelations]
=============================================================================
