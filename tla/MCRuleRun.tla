----------------------------- MODULE MCRuleRun ------------------------------
\* Instance of RuleRun: a function with a nested one, a class with a method, and
\* a class with a method in a function; in each a function has the name of a local.
EXTENDS RuleRun

At(function, class) == [function |-> function, class |-> class]

MCLayouts ==
    {{At(<< >>, NoClass), At(<<"k">>, NoClass), At(<<"k", "g">>, NoClass)},
     {At(<< >>, NoClass), At(<< >>, <<"C">>), At(<<"C", "k">>, <<"C">>)},
     {At(<<"f">>, NoClass), At(<<"f">>, <<"f", "K">>), At(<<"f", "K", "k">>, <<"f", "K">>)}}

MCImportLists == {<<"other", "crypto">>}

=============================================================================
