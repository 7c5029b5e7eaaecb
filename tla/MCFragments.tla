---------------------------- MODULE MCFragments ----------------------------
(* Two unix hosts, two windows hosts, and a state directory of its own;    *)
(* start-up files as the user, or another host, has left them.             *)
EXTENDS Fragments

Doc(env, shell) == [env |-> env, shell |-> shell]
X1 == {<<"X", "1">>}
X2 == {<<"X", "2">>}
Aliases == {<<"ll", "ls", "any">>, <<"dir", "gci", "powershell">>}
Sourced == {<<"ll", "ls -l", "any">>, <<"extra", "extra", "source">>}

MCDocuments == {Doc({}, NoShell), Doc(X1, {}), Doc(X2, Sourced), Doc({}, Aliases)}
MCFirstSpecs == {Doc(X1, {}), Doc(X2, Sourced)}

Unix(shell, custom) == [windows |-> FALSE, engine |-> "none", shell |-> shell, custom |-> custom]
Windows(engine, shell) == [windows |-> TRUE, engine |-> engine, shell |-> shell, custom |-> FALSE]
MCHosts == {Unix("bash", FALSE), Unix("zsh", FALSE), Unix("bash", TRUE),
            Windows("none", "none"), Windows("pwsh", "none"), Windows("windows", "bash")}
MCFirstHosts == {Unix("bash", FALSE), Unix("bash", TRUE), Windows("pwsh", "none")}

None == [r \in Rcs |-> Absent]
\* Templates committed on another host.
Template == <<Marker, Source("shell.sh", "elsewhere"), Source("env.sh", "elsewhere"), User("1")>>
ProfileTemplate == <<Begin("shell"), Source("shell.ps1", "elsewhere"), End("shell"), User("1")>>
MCFirstRcs == {[None EXCEPT !["bashrc"] = Template, !["pwsh profile"] = ProfileTemplate],
               [None EXCEPT !["zshrc"] = <<User("1")>>, !["windows profile"] = <<User("1")>>]}
=============================================================================
