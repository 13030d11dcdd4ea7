SPECIFICATION PaintingSpec
CONSTANTS
    ParentX = 2
    ParentY = 4
    TitleH = 2
    WindowPadding = 1
    WindowBorder = 1
    Size = {6}
    Prop = {0, 1, 128}
    MaxLines = 3
    Padding = {0, 1}
    Edge <- Edges
    Preferred <- Preferences
    MaxChildren = 4
    Bitmap <- BitmapSize
    Colour <- Grounds
    Junk <- JunkPixel
    Rectangles <- RectangleSet
    Lines <- LineSet
    Ellipses <- EllipseSet
    Data <- Picture
    From <- Positions
    Extent = {0, 1, 2, 5}
    Panels <- PanelColours
    Char <- Chars
    MaxStr = 4
    Wrap <- Wraps
CHECK_DEADLOCK FALSE
INVARIANTS SeenIsFound FirstRowApart RectangleAsAsked LineAsAsked EllipseAsAsked ShownIsData WordsWhole
