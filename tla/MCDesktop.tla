------------------------------ MODULE MCDesktop ------------------------------
EXTENDS Desktop

MCContextIds == 1..3
MCJobs == 1..2
MCStored == <<"plain">>
MCViewports == {1280, 800}
MCPlaces == {0}
MCFarPlaces == {-500, 0}
MCTools == {"context-map", "terminal"}
=============================================================================
