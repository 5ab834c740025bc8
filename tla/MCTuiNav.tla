------------------------------- MODULE MCTuiNav -------------------------------
(***************************************************************************)
(* Two sites with a staging partner and one without; the first is in a     *)
(* generic folder.                                                         *)
(***************************************************************************)
EXTENDS TuiNav

Home1(n) == << <<"home">>, n, <<"public_html">> >>
shop == Home1(<<"shop">>)
shopStage == Home1(<<"stage", "shop">>)
blog == Home1(<<"blog">>)
blogStage == Home1(<<"staging", "blog">>)
lone == Home1(<<"dev", "forum">>)

MCPaths == {shop, shopStage, blog, blogStage, lone}
MCGeneric == {<<"public_html">>}
MCVHosts == <<shop, lone>>
MCWalked == <<shop, shopStage, blog, blogStage, lone>>
MCBrowse == {blogStage}

Conf(l, s) == [live |-> l, stage |-> s, modes |-> TRUE]
None == [n \in Names |-> NoConfig]
NoBackups == [n \in Names |-> {}]
Disk(s, f, b) == [sites |-> s @@ None, flat |-> f @@ None, backups |-> b @@ NoBackups]

\* Nothing; or one webroot saved under both its names; or a site under its legacy
\* name with two backups, and in the old layout a file without modes, next to an
\* archive that lost its sidecar.
MCDisks ==
    { Disk(None, None, NoBackups),
      Disk(<<"public_html">> :> Conf(shop, shopStage) @@ <<"shop">> :> Conf(shop, shopStage),
           None, NoBackups),
      Disk(<<"public_html">> :> Conf(shop, shopStage),
           <<"blog">> :> [Conf(blog, blogStage) EXCEPT !.modes = FALSE],
           <<"public_html">> :> [live : {shop}, time : {1, 2}] @@ <<"blog">> :> {Orphan}) }

ASSUME NamesTellSitesApart == DistinctNames /\ \A d \in MCDisks : OneOwner(d)

(***************************************************************************)
(* What the current screen, or one after it, still reads; the rest is      *)
(* written anew before it is read.                                         *)
(***************************************************************************)
TableScreens == {"syncParams", "tableSelect", "excludes", "confirm"}
SyncScreens == {"credentials", "running"} \cup TableScreens
PromoteScreens == {"promoteSelect", "promoteConfirm", "promoteRunning"}
RestoreScreens == {"restoreList", "restoreConfirm", "restoreRunning"}
DeleteScreens == {"deleteSelect", "deleteConfirm"}

Live(screens, value) == IF step \in screens THEN value ELSE <<>>

MCView ==
    IF step \in Ended \cup Done \cup {"starting"}
    THEN <<disk, step, Live(Done, <<showHelp, confirmQuit>>), gone, outside>>
    ELSE IF step \in Running
    THEN <<disk, screen, Cfg, gone, outside, Live(SyncScreens, parsed),
           Live(PromoteScreens, shown.assets), Live(RestoreScreens, shown.restores)>>
    ELSE <<disk, screen, savedSites, alias, IF alias = 0 THEN own ELSE 0, gone, outside,
           Live(SyncScreens, parsed),
           Live(TableScreens, <<shown.tables, shown.woo>>), Live({"syncParams"}, shown.inputOK),
           Live({"excludes", "confirm"}, shown.excludes),
           Live(PromoteScreens, <<shown.labels, shown.picked, shown.assets>>),
           Live(RestoreScreens, shown.restores), Live(DeleteScreens, shown.marked)>>

=============================================================================
