------------------------------- MODULE MCProgram -------------------------------
(***************************************************************************)
(* An instance of Program for TLC: three builtin or server tools, two      *)
(* paths, one server of each kind and the docs server, and the set-ups     *)
(* that make each step of an assembly succeed and fail.                    *)
(***************************************************************************)
EXTENDS Program

\* The globs in byte order: "*" before "bash"; "" before "**" and "src/**".
Globs == <<{"bash", "read", "db.query"}, {"bash"}>>
PathGlobs3 == <<{"src", "etc", "none"}, {"src", "etc"}, {"src"}>>

Order3 == <<"context7", "db", "web">>

ServerOf1 == "db.query" :> "db"

\* A project whose file is fine, with a terminal and no servers.
Plain == [file |-> "good", explicit |-> FALSE, instructionsEscape |-> FALSE,
          envModel |-> "", flagModel |-> "", model |-> "anthropic",
          providers |-> "anthropic" :> [key |-> TRUE, url |-> FALSE],
          fake |-> FALSE, docs |-> FALSE, servers |-> {}, hangs |-> {},
          embedder |-> FALSE, autoOpen |-> FALSE, storeThere |-> FALSE,
          storeBroken |-> FALSE, skillsBroken |-> FALSE, skip |-> FALSE, once |-> FALSE,
          toolRules |-> <<>>, pathRules |-> {}, turns |-> 2, composes |-> FALSE]

Once == [Plain EXCEPT !.once = TRUE]

\* All tools are asked about, bash is not; src/** is named twice.
Ruled == [Plain EXCEPT
    !.toolRules = <<"ask", "allow">>,
    !.pathRules = {[key |-> 2, says |-> "deny"], [key |-> 3, says |-> "ask"],
                   [key |-> 3, says |-> "allow"]}]

\* Every call is asked about, also one that names no path; src/** is not.
RuledForAll == [Plain EXCEPT
    !.toolRules = <<"deny", "allow">>,
    !.pathRules = {[key |-> 1, says |-> "ask"], [key |-> 3, says |-> "allow"]}]

SmallSetups ==
    {Ruled,
     [Plain EXCEPT !.composes = TRUE, !.turns = 0],
     [Ruled EXCEPT !.once = TRUE],
     [RuledForAll EXCEPT !.turns = 1],
     [Ruled EXCEPT !.once = TRUE, !.skip = TRUE],
     [Plain EXCEPT !.servers = {"db", "web"}, !.embedder = TRUE,
                   !.storeThere = TRUE, !.turns = 0],
     [Once EXCEPT !.servers = {"db"}, !.embedder = TRUE],
     [Once EXCEPT !.servers = {"web"}],
     [Once EXCEPT !.servers = {"db"}, !.hangs = {"db"}],
     [Once EXCEPT !.servers = {"db", "web"}, !.fake = TRUE,
                  !.skillsBroken = TRUE],
     [Once EXCEPT !.docs = TRUE],
     [Once EXCEPT !.file = "absent"],
     [Once EXCEPT !.file = "absent", !.envModel = "anthropic"],
     [Once EXCEPT !.file = "absent", !.explicit = TRUE],
     [Once EXCEPT !.servers = {"db"}, !.flagModel = "other"],
     [Once EXCEPT !.servers = {"db"},
                  !.providers = "anthropic" :> [key |-> FALSE, url |-> FALSE]],
     [Once EXCEPT !.model = "other",
                  !.providers = "other" :> [key |-> FALSE, url |-> TRUE]],
     [Once EXCEPT !.servers = {"db"}, !.toolRules = <<"perhaps">>],
     [Once EXCEPT !.embedder = TRUE],
     [Once EXCEPT !.embedder = TRUE, !.autoOpen = TRUE, !.storeBroken = TRUE],
     [Plain EXCEPT !.servers = {"db"}, !.hangs = {"db"}, !.turns = 1]}
===============================================================================
