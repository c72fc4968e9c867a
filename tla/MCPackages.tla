----------------------------- MODULE MCPackages -----------------------------
EXTENDS Packages

\* What the vle command and the editor ask a RemoteManager, and the example
\* of its documentation.
Callers ==
    {<<"install">>, <<"source">>, <<"local">>, <<"show">>, <<"localshow">>,
     <<"update", "search">>, <<"update", "install">>}

Limits == <<2, 1>>

UpdateInstall == {<<"update", "install">>}

\* A caller that keeps its RemoteManager after an installation.
InstallThenSearch == {<<"update", "install", "search">>}

CommandLines == {<<"configure", "build">>, <<"build">>, <<"install">>, <<"clean", "rclean">>}

NoCommands == {}
=============================================================================
