---------------------------- MODULE MCDownloader ----------------------------
EXTENDS Downloader
=============================================================================
