----------------------------- MODULE MC_Dumpsys -----------------------------
EXTENDS Dumpsys
CONSTANTS HELP_, LIST_, SKIP_
\* Two registered services; 3 is a name nobody registered.
MCServices == {1, 2}
\* dumpsys; --help; -l; --skip 2; --skip 1,2; --skip ""; 1; 3; 1 --help;
\* -l 1; --skip
MCArgvSet == {<<>>, <<HELP_>>, <<LIST_>>, <<SKIP_, <<2>>>>,
              <<SKIP_, <<1, 2>>>>, <<SKIP_, <<>>>>, <<1>>, <<3>>,
              <<1, HELP_>>, <<LIST_, 1>>, <<SKIP_>>}
=============================================================================
