---------------------------- MODULE MCBTPerformer ----------------------------
(* Each leaf under the trees, and with the users, that matter to it.         *)
EXTENDS BTPerformer

MCSetups ==
    [leaf : {"action"}, tree : Trees, user : Users]
        \cup [leaf : {"service"}, tree : Trees, user : {"default"}]
        \cup [leaf : {"python"}, tree : {"leaf"}, user : {"default"}]
=============================================================================
