---------------------------- MODULE MCSitePublish ----------------------------
(* Small instances of the publication pipeline for TLC.                    *)
EXTENDS SitePublish, TLC

CONSTANTS page, app, other

\* The page is plain; the app has a worker file; the other is plain too.
Bundles == [r \in Revisions |->
              IF r = app THEN {"index.html", "_worker.js"} ELSE {"index.html"}]

NoFiles == {}
AppWorker == {<<app, "_worker.js">>}
PageIndex == {<<page, "index.html">>}

PublisherSymmetry == Permutations(Publishers)
=============================================================================
