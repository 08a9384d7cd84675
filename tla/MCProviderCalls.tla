-------------------------- MODULE MCProviderCalls --------------------------
(* Small instances of ProviderCalls: a user manager without a session, a    *)
(* session of a shell, one of an unknown compositor and one of X11.         *)
EXTENDS ProviderCalls

MCDesktop ==
    [e \in Environments |->
        IF e = "x11" THEN "X11"
        ELSE IF e = "shell" THEN "SHELL" ELSE "NONE"]
MCFeatures ==
    [e \in Environments |->
        IF e = "wayland" THEN {"capture", "keymap"}
        ELSE IF e = "shell" THEN {"capture"} ELSE {}]
MCSupported ==
    [b \in {"SHELL", "X11", "GENERIC"} |->
        IF b = "GENERIC" THEN {"capture"} ELSE {"capture", "keymap"}]
MCConnections == 1..(Cardinality(Callers) + 1)
=============================================================================
