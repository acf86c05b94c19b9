-------------------------- MODULE MCCLIVersionSync --------------------------
(* Small instances of CLIVersionSync for TLC. *)
EXTENDS CLIVersionSync, TLC

CONSTANTS c1, c2

const_CLIs == {c1, c2}

\* One CLI has a source, the source of the other has lost its package name.
const_OneSource == c1 :> "npm_dist_tag" @@ c2 :> "unnamed"

\* Both have one.
const_TwoSources == c1 :> "npm_dist_tag" @@ c2 :> "homebrew_cask"

\* One image per configured CLI.
const_Images == {<<c, "image">> : c \in Configured}

=============================================================================
