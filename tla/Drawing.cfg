CONSTANTS
    U32 = 64
    Documents <- SomeDocuments
    PageSizes = {1, 2, 50}
    MaxPage = 3
    Raster <- SomeRaster
    White = {"sp"}
    Fatal = {"x"}
    Preloaded = {"a"}
SPECIFICATION DrawSpec
INVARIANT InkWithinThePage
PROPERTY DrawsThePicture
