--------------------------- MODULE MCCrawlCluster ---------------------------
EXTENDS CrawlCluster
=============================================================================
