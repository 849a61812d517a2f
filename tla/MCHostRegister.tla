--------------------------- MODULE MCHostRegister ---------------------------
(* Builders and configurations for the model checker: a module with every kind *)
(* of fork, and two modules with every combination of roles.                *)
EXTENDS HostRegister

CONSTANTS m1, m2, x, y, r, s, a, b, c

Info(provider, name, options) == [provider |-> provider, default |-> name, options |-> options]

Name2(n) == [option |-> "name", arg |-> n]
Role(role) == [option |-> "role", arg |-> role]

Values3(listen, register, tls) ==
    [key \in Keys |-> CASE key = "listen_addr" -> listen
                        [] key = "register_addr" -> register
                        [] OTHER -> tls]

Missing == [is |-> Absent]
Fork(listen, register, tls) == [is |-> "map", keys |-> Values3(listen, register, tls)]
NoForks == [f \in ForkNames |-> Missing]
Module(listen, register, forks) ==
    [is |-> "map", keys |-> Values3(listen, register, Absent), forks |-> forks, decodes |-> TRUE]

(* One module and its forks: with addresses of their own, with those of the     *)
(* module, with the address of another, or null.                            *)
ForkInputs ==
    {[infos |-> <<Info("ok", m1, <<>>)>>, flagRoles |-> <<>>, fileRoles |-> {},
      section |-> TRUE,
      configs |-> m1 :> Module(a, register, x :> forkX @@ y :> forkY) @@ m2 :> Missing] :
        register \in {Absent, c},
        forkX \in {Missing, [is |-> Null], Fork(b, Absent, Absent), Fork(Absent, b, NoTLS)},
        forkY \in {Missing, Fork(c, Absent, b), Fork(a, b, Absent)}}

(* Two modules and their roles; the second may have the name of the first, or    *)
(* no configuration.                                                        *)
RoleInputs ==
    {[infos |-> <<Info("ok", m1, options1), Info("ok", m2, options2)>>,
      flagRoles |-> flags, fileRoles |-> {s}, section |-> TRUE,
      configs |-> m1 :> Module(a, Absent, NoForks) @@ m2 :> config2] :
        options1 \in {<<>>, <<Role("")>>, <<Role(r)>>},
        options2 \in {<<Role(r)>>, <<Role(s), Role(r)>>, <<Name2(m1)>>},
        flags \in {<<>>, <<{}>>, <<{r}>>},
        config2 \in {Missing, Module(Absent, a, NoForks)}}

(* What goes wrong while a module is made. *)
FailInputs ==
    {[infos |-> <<Info(provider, m1, <<>>)>>, flagRoles |-> <<>>, fileRoles |-> {},
      section |-> section,
      configs |-> m1 :> Module(a, Absent, NoForks) @@ m2 :> Missing] :
        provider \in Creates, section \in BOOLEAN}

(* Two modules, the second with a section of forks that does not decode; its roles *)
(* may exclude it.                                                          *)
UndecodedInputs ==
    {[infos |-> <<Info("ok", m1, <<>>), Info("ok", m2, <<Role(r)>>)>>,
      flagRoles |-> <<{role}>>, fileRoles |-> {}, section |-> TRUE,
      configs |-> m1 :> Module(a, Absent, NoForks)
                    @@ m2 :> [Module(b, Absent, NoForks) EXCEPT !.decodes = FALSE]] :
        role \in {r, s}}

MCInputs == ForkInputs \cup RoleInputs \cup FailInputs \cup UndecodedInputs
=============================================================================
